---- MODULE Spec2Model ----
(***************************************************************************)
(* State-machine model of the rooster simulator's audio engine             *)
(* (src/audio_system.py): the asset cache, the registry of active sounds,  *)
(* the mixing callback, the producers that register sounds under the       *)
(* shared lock, and the output stream with its stereo fallback.            *)
(*                                                                         *)
(* Threads: the producers of Producers call play_sound / play_test_tone;   *)
(* the audio subsystem's callback thread runs _audio_callback while a      *)
(* stream is active; the main thread calls start_stream, stop_stream and   *)
(* get_active_sound_count.  A step of a thread is a maximal piece of code  *)
(* that no other thread can observe half-done: code outside the lock up to *)
(* the next lock acquisition, and inside the lock one shared-memory access *)
(* sequence.                                                               *)
(*                                                                         *)
(* Specifications: Spec takes play_sound's load as one step; SpecRace and   *)
(* SpecCache take it step by step (the cache test, then the decoding and    *)
(* the store), with concurrent producers and with a calls directory whose   *)
(* files change; SpecUnderrun passes status flags to the callback.          *)
(*                                                                         *)
(* Numbers: samples are integers; gains are integers in thousandths        *)
(* (1000 is the float 1.0), so 0.7 * g is (7 * g) \div 10.                  *)
(***************************************************************************)
EXTENDS Integers, Sequences, FiniteSets, TLC

\* ------------------------------------------------------------------ bounds

\* Sounds ever registered in one run (caps next_sound_id).
MaxSounds == 2

\* Frames per callback: the stream is opened with blocksize=1024; scaled down.
BlockSize == 2

\* Samples of the test tone: int(sample_rate * 0.5) in the source; scaled down.
ToneLen == 2

\* Producer threads.
Producers == {"p1", "p2"}

\* ------------------------------------------------------------ inputs

\* Outcomes of one attempt to open the device: the OutputStream constructor
\* raises, or the constructor succeeds and stream.start() raises, or both succeed.
Outcomes == {"ok", "ctor_fail", "start_fail"}

\* config['audio']['channels'] values the model starts from.
RequestedChannels == {2, 6}

\* config['audio']['channels'] values of set-ups with fewer speakers, and 5.1.
ConfiguredChannels == {1, 2, 4, 6}

\* The calls directory: for each name whether the path exists, whether
\* soundfile decodes it, how an ffmpeg run on it ends ("ok", "exit_error": a
\* non-zero exit status, "not_launched": the executable cannot be run,
\* "bad_output": it exits with 0 and soundfile cannot read what it wrote), the
\* decoded frames (one tuple of channel samples per frame) and the sample rate.
InitialFiles ==
    [n \in {"a.wav", "empty.wav", "gone.wav", "bad.ogg", "ok.mp3", "bad.mp3",
            "broken.mp3", "unlaunched.mp3", "LOUD.MP3"} |->
        CASE n = "a.wav"     -> [exists |-> TRUE,  sf_ok |-> TRUE,  ffmpeg |-> "exit_error",
                                 frames |-> << <<2, 4>>, <<1, 1>>, <<4, 0>> >>, rate |-> 2]
          [] n = "empty.wav" -> [exists |-> TRUE,  sf_ok |-> TRUE,  ffmpeg |-> "exit_error",
                                 frames |-> << >>, rate |-> 1]
          [] n = "gone.wav"  -> [exists |-> FALSE, sf_ok |-> FALSE, ffmpeg |-> "exit_error",
                                 frames |-> << >>, rate |-> 1]
          [] n = "bad.ogg"   -> [exists |-> TRUE,  sf_ok |-> FALSE, ffmpeg |-> "ok",
                                 frames |-> << <<1>> >>, rate |-> 1]
          [] n = "ok.mp3"    -> [exists |-> TRUE,  sf_ok |-> FALSE, ffmpeg |-> "ok",
                                 frames |-> << <<7>> >>, rate |-> 2]
          [] n = "bad.mp3"   -> [exists |-> TRUE,  sf_ok |-> FALSE, ffmpeg |-> "bad_output",
                                 frames |-> << >>, rate |-> 1]
          [] n = "LOUD.MP3"  -> [exists |-> TRUE,  sf_ok |-> FALSE, ffmpeg |-> "ok",
                                 frames |-> << <<3>> >>, rate |-> 2]
          [] n = "broken.mp3" -> [exists |-> TRUE, sf_ok |-> FALSE, ffmpeg |-> "exit_error",
                                 frames |-> << >>, rate |-> 1]
          [] n = "unlaunched.mp3" -> [exists |-> TRUE, sf_ok |-> FALSE,
                                      ffmpeg |-> "not_launched",
                                      frames |-> << >>, rate |-> 1]]

FileNames == DOMAIN InitialFiles

\* Gain vectors (FL, FR, C, LFE, RL, RR) the producers pass to play_sound.
FrontLeftOnly == <<1000, 0, 0, 0, 0, 0>>
FrontRightQuadrant == <<0, 800, 200, 150, 0, 0>>
CenterOnly == <<0, 0, 1000, 0, 0, 0>>

\* (filename, speaker_volumes) pairs passed to play_sound.
PlayInputs ==
    {<<"a.wav", FrontLeftOnly>>, <<"a.wav", FrontRightQuadrant>>,
     <<"empty.wav", FrontLeftOnly>>, <<"ok.mp3", FrontRightQuadrant>>,
     <<"ok.mp3", CenterOnly>>,
     <<"gone.wav", FrontLeftOnly>>, <<"bad.ogg", FrontLeftOnly>>,
     <<"bad.mp3", FrontRightQuadrant>>}

\* The status flags the audio subsystem passes to the callback: none, or those
\* of an output underflow.
NoStatus == ""
Statuses == {NoStatus, "output underflow"}

\* (quadrant, distance) pairs passed to play_test_tone.
ToneInputs == { <<1, 30>> }

\* config['audio']['volume'] and config['audio']['sample_rate'].
config ==
    [min_distance |-> 10, max_distance |-> 70,
     min_volume |-> 100, max_volume |-> 1000, sample_rate |-> 1]

VARIABLES
    files,              \* the calls directory (file system)
    tmp_files,          \* temporary .wav files that exist, named by the file transcoded
    audio_cache,        \* self.audio_cache: filename -> (data, sample_rate)
    active_sounds,      \* self.active_sounds: sound_id -> data, position, volumes
    next_sound_id,      \* self.next_sound_id
    lock,               \* self.lock: "free" or the thread holding it
    stream,             \* self.stream: "none", "created" (constructed, not started), "active"
    channels,           \* self.channels
    is_stereo_mode,     \* self.is_stereo_mode
    requested_channels, \* self.requested_channels
    open_log,           \* channel counts the latest start_stream passed to sd.OutputStream
    pc,                 \* position of each producer and of the callback thread
    local,              \* play_sound / play_test_tone locals of each producer
    ret,                \* the value the latest call to return has returned
    sounds_to_remove,   \* the callback's local list
    outdata,            \* the callback's output buffer, while the callback runs
    ticks,              \* history: callbacks each active sound has been mixed in
    retired,            \* history: the ids deleted from active_sounds, each with
                        \* whether its position had reached len(data) when deleted
    loading,            \* each producer's call of load_audio, when taken step by step
    printed,            \* what the latest callback invocation printed ("" for nothing)
    position,           \* a rooster's Position: angle and distance
    volume_config,      \* config['audio']['volume'] of that rooster
    returned,           \* what the latest call of a method of that rooster returned
    current_time,       \* self.current_time - self.start_time, in seconds
    time_config,        \* config['simulation_time'] and config['calling']['time_of_day']
    roosters,           \* self.roosters: id -> position, calling state, next checks
    stats,              \* self.stats
    sim_pc,             \* where the main thread is in _update_roosters
    calling_roosters,   \* _update_roosters' list of (rooster, is_response) still to execute
    nearby_seen,        \* nearby_calling of each rooster in the latest third pass (ids)
    call_started        \* the roosters whose start_call ran in the latest invocation

vars == <<files, tmp_files, audio_cache, active_sounds, next_sound_id, lock, stream, channels,
          is_stereo_mode, requested_channels, open_log, pc, local, ret,
          sounds_to_remove, outdata, ticks, retired, loading, printed,
          position, volume_config, returned, current_time, time_config,
          roosters, stats, sim_pc, calling_roosters, nearby_seen, call_started>>

\* The audio system's variables, and those of the roosters around it.
audio_vars == <<files, tmp_files, audio_cache, active_sounds, next_sound_id, lock, stream,
                channels, is_stereo_mode, requested_channels, open_log, pc, local, ret,
                sounds_to_remove, outdata, ticks, retired, loading, printed>>
world_vars == <<position, volume_config, returned, current_time, time_config,
                roosters, stats, sim_pc, calling_roosters, nearby_seen, call_started>>
sim_vars == <<roosters, stats, sim_pc, calling_roosters, nearby_seen, call_started>>
gain_vars == <<position, volume_config>>
clock_vars == <<current_time, time_config>>

registry_vars == <<active_sounds, next_sound_id, ticks, retired>>
stream_vars == <<stream, channels, is_stereo_mode, requested_channels, open_log>>
callback_vars == <<sounds_to_remove, outdata>>
producer_vars == <<pc, local, ret>>

\* Return values: Python's None, or an integer.
None == [none |-> TRUE, val |-> 0]
Value(n) == [none |-> FALSE, val |-> n]

\* ret before any call has returned.
Pending == [none |-> FALSE, val |-> -1]

NoLocal == [data |-> << >>, volumes |-> << >>, sound_id |-> -1]

\* A producer that is not inside load_audio.
NotLoading ==
    [stage |-> "idle", filename |-> "", ok |-> FALSE, data |-> << >>, rate |-> 0,
     calls |-> << >>, error |-> ""]

\* ------------------------------------------------------------ helpers

Min(a, b) == IF a <= b THEN a ELSE b

RECURSIVE SumSeq(_)
SumSeq(s) == IF s = << >> THEN 0 ELSE Head(s) + SumSeq(Tail(s))

\* np.mean(data, axis=1): the per-frame average over the channels.
ToMono(frames) == [i \in 1..Len(frames) |-> SumSeq(frames[i]) \div Len(frames[i])]

\* Variant: every name counts as an MP3.
EndsWithAnything(name) == Len(name) >= 4

\* filename.lower().endswith('.mp3'): the names lower() maps to one ending in
\* '.mp3' are those ending in '.mp3' in whatever letter case.
EndsWithMp3(name) ==
    /\ Len(name) >= 4
    /\ SubSeq(name, Len(name) - 3, Len(name)) \in {".mp3", ".mP3", ".Mp3", ".MP3"}

\* ------------------------------------------------------------ asset cache

\* Variant: the cache holds the latest name only.
CacheWith_evicting(filename, data, rate) ==
    [n \in {filename} |-> [data |-> data, rate |-> rate]]

\* The cache with (data, rate) stored under filename.
CacheWith(filename, data, rate) ==
    [n \in DOMAIN audio_cache \cup {filename} |->
        IF n = filename THEN [data |-> data, rate |-> rate] ELSE audio_cache[n]]

\* What a load leaves: ok (a pair is returned; otherwise None is returned or
\* the exception propagates), the pair, the cache and the temporary files;
\* calls are the calls it made on the file system, the decoder and the
\* transcoder, error is the message it printed for a failure.
Loaded(data, rate, cache, tmp) ==
    [ok |-> TRUE, data |-> data, rate |-> rate, cache |-> cache, tmp |-> tmp,
     calls |-> << >>, error |-> ""]
NotLoaded(tmp) ==
    [ok |-> FALSE, data |-> << >>, rate |-> 0, cache |-> audio_cache, tmp |-> tmp,
     calls |-> << >>, error |-> ""]

\* A load's result with the calls made and the message printed filled in.
Calling(r, calls, error) == [r EXCEPT !.calls = calls, !.error = error]

\* _load_mp3_with_ffmpeg: ok = FALSE stands for the exception it re-raises.
_load_mp3_with_ffmpeg(filename) ==
    LET f == files[filename]
        tmp == tmp_files \cup {filename}       \* NamedTemporaryFile(delete=False)
    IN  CASE f.ffmpeg = "ok" ->
                \* sf.read of the converted file, os.unlink, cache, return
                LET data == ToMono(f.frames)     \* ffmpeg -ac 1
                    rate == config.sample_rate   \* ffmpeg -ar sample_rate
                IN  Calling(Loaded(data, rate, CacheWith(filename, data, rate),
                                   tmp \ {filename}),
                            <<"subprocess.run", "sf.read">>, "")
          [] f.ffmpeg = "exit_error" ->
                \* except subprocess.CalledProcessError: print, raise
                Calling(NotLoaded(tmp), <<"subprocess.run">>, "ffmpeg error")
          [] f.ffmpeg = "bad_output" ->
                \* except Exception: unlink the temp file if it exists, raise
                Calling(NotLoaded(tmp \ {filename}), <<"subprocess.run", "sf.read">>, "")
          [] OTHER ->
                \* the same handler, subprocess.run having raised
                Calling(NotLoaded(tmp \ {filename}), <<"subprocess.run">>, "")

\* load_audio after `if filename in self.audio_cache` has found nothing.
load_audio_miss(filename) ==
    LET f == files[filename]
    IN  IF ~f.exists
        THEN Calling(NotLoaded(tmp_files), <<"os.path.exists">>,
                     "Warning: Audio file not found")
        ELSE IF f.sf_ok
        THEN LET data == IF \E i \in 1..Len(f.frames) : Len(f.frames[i]) > 1
                         THEN ToMono(f.frames)
                         ELSE [i \in 1..Len(f.frames) |-> f.frames[i][1]]
             IN  Calling(Loaded(data, f.rate, CacheWith(filename, data, f.rate), tmp_files),
                         <<"os.path.exists", "sf.read">>, "")
        ELSE IF EndsWithMp3(filename)
        THEN \* its exception is caught: None
             LET r == _load_mp3_with_ffmpeg(filename)
             IN  Calling(r, <<"os.path.exists", "sf.read">> \o r.calls,
                         IF r.ok THEN "" ELSE "Error loading MP3 file")
        ELSE Calling(NotLoaded(tmp_files), <<"os.path.exists", "sf.read">>,
                     "Error loading audio file")

\* load_audio: ok = FALSE stands for the None it returns.
load_audio(filename) ==
    IF filename \in DOMAIN audio_cache
    THEN Loaded(audio_cache[filename].data, audio_cache[filename].rate,
                audio_cache, tmp_files)
    ELSE load_audio_miss(filename)

\* ------------------------------------------------------------ test tone

\* create_test_tone: ToneLen samples; the fades make the first and the last
\* sample 0, the samples between are a non-zero stand-in for the sine.
create_test_tone == [i \in 1..ToneLen |-> IF i = 1 \/ i = ToneLen THEN 0 ELSE 3]

\* play_test_tone's base volume for a distance, volume being
\* self.config['audio']['volume'].
tone_base_volume_under(volume, distance) ==
    IF distance <= volume.min_distance THEN volume.max_volume
    ELSE IF distance >= volume.max_distance THEN volume.min_volume
    ELSE volume.max_volume
         - ((distance - volume.min_distance) * (volume.max_volume - volume.min_volume))
           \div (volume.max_distance - volume.min_distance)

\* Variant: a quadrant outside 0..3 is taken modulo 4.
tone_volumes_wrapping(volume, quadrant, distance) ==
    LET b == tone_base_volume_under(volume, distance)
        hi == (8 * b) \div 10
        lo == (2 * b) \div 10
        lfe == (15 * b) \div 100
    IN  CASE quadrant % 4 = 0 -> <<0, hi, lo, lfe, 0, 0>>
          [] quadrant % 4 = 1 -> <<0, lo, 0, lfe, 0, hi>>
          [] quadrant % 4 = 2 -> <<lo, 0, 0, lfe, hi, 0>>
          [] OTHER            -> <<hi, 0, lo, lfe, 0, 0>>

\* play_test_tone's gain vector (fl, fr, c, lfe, rl, rr) under that section.
tone_volumes_under(volume, quadrant, distance) ==
    LET b == tone_base_volume_under(volume, distance)
        hi == (8 * b) \div 10
        lo == (2 * b) \div 10
        lfe == (15 * b) \div 100
    IN  CASE quadrant = 0 -> <<0, hi, lo, lfe, 0, 0>>
          [] quadrant = 1 -> <<0, lo, 0, lfe, 0, hi>>
          [] quadrant = 2 -> <<lo, 0, 0, lfe, hi, 0>>
          [] quadrant = 3 -> <<hi, 0, lo, lfe, 0, 0>>
          [] OTHER        -> <<0, 0, 0, lfe, 0, 0>>

\* The two under the configuration the model's audio system is built with.
tone_base_volume(distance) == tone_base_volume_under(config, distance)
tone_volumes(quadrant, distance) == tone_volumes_under(config, quadrant, distance)

\* Quadrants play_test_tone is called with: main.py passes 0..3; the method
\* tests none.
TestQuadrants == {-1, 0, 1, 2, 3, 4}

\* ------------------------------------------------------------ roosters

\* Floating point in miniature.  Numbers below Precision are integers without
\* error; from there on the distance between neighbouring numbers doubles with
\* every doubling of the magnitude, as a fixed number of mantissa bits makes it.
Precision == 16

RECURSIVE Ulp(_)
Ulp(x) == IF x < Precision THEN 1 ELSE 2 * Ulp(x \div 2)

\* x >= 0 rounded to the nearest number of the format, ties to the even mantissa.
Round(x) ==
    LET u == Ulp(x)
        lo == (x \div u) * u
    IN  IF x = lo THEN x
        ELSE IF 2 * (x - lo) < u THEN lo
        ELSE IF 2 * (x - lo) > u THEN lo + u
        ELSE IF (lo \div u) % 2 = 0 THEN lo ELSE lo + u

Representable(x) == IF x >= 0 THEN Round(x) = x ELSE Round(-x) = -x

\* math.pi / 2 and 2 * math.pi in angle units.
Quarter == 8
TwoPi == 4 * Quarter

\* Python's a % m on floats, m > 0: the C remainder (exact, with the sign of
\* a), to which m is added when it is negative; the sum is rounded.
float_mod(a, m) ==
    LET r == IF a >= 0 THEN a % m ELSE -((-a) % m)
    IN  IF r < 0 THEN Round(r + m) ELSE r

\* Variant: the quotient is rounded to the nearest integer, not truncated.
get_quadrant_rounding(angle) ==
    LET normalized_angle == float_mod(angle, TwoPi)
        quadrant == (normalized_angle + Quarter \div 2) \div Quarter
    IN  quadrant % 4

\* Position.get_quadrant.
get_quadrant(angle) ==
    LET normalized_angle == float_mod(angle, TwoPi)
        quadrant == normalized_angle \div Quarter
    IN  quadrant % 4

\* Variant: the falloff is computed without the two tests on the distance.
get_volume_for_distance_untested(distance) ==
    LET c == volume_config
    IN  IF c.max_distance - c.min_distance = 0
        THEN [raised |-> TRUE, value |-> 0]
        ELSE [raised |-> FALSE,
              value |-> c.max_volume
                          - ((distance - c.min_distance) * (c.max_volume - c.min_volume))
                            \div (c.max_distance - c.min_distance)]

\* Rooster.get_volume_for_distance; raised stands for a ZeroDivisionError.
get_volume_for_distance(distance) ==
    LET c == volume_config
    IN  IF distance <= c.min_distance
        THEN [raised |-> FALSE, value |-> c.max_volume]
        ELSE IF distance >= c.max_distance
        THEN [raised |-> FALSE, value |-> c.min_volume]
        ELSE IF c.max_distance - c.min_distance = 0
        THEN [raised |-> TRUE, value |-> 0]
        ELSE [raised |-> FALSE,
              value |-> c.max_volume
                          - ((distance - c.min_distance) * (c.max_volume - c.min_volume))
                            \div (c.max_distance - c.min_distance)]

\* Variant: the front left quadrant bleeds into the front right speaker.
get_speaker_volumes_bleeding(pos) ==
    LET base_volume == get_volume_for_distance(pos.distance).value
        quadrant == get_quadrant(pos.angle)
        hi == (8 * base_volume) \div 10
        lo == (2 * base_volume) \div 10
        lfe == (15 * base_volume) \div 100
    IN  CASE quadrant = 0 -> <<0, hi, lo, lfe, 0, 0>>
          [] quadrant = 1 -> <<0, lo, 0, lfe, 0, hi>>
          [] quadrant = 2 -> <<lo, 0, 0, lfe, hi, 0>>
          [] OTHER        -> <<hi, lo, 0, lfe, 0, 0>>

\* Rooster.get_speaker_volumes: (fl, fr, c, lfe, rl, rr).
get_speaker_volumes(pos) ==
    LET base_volume == get_volume_for_distance(pos.distance).value
        quadrant == get_quadrant(pos.angle)
        hi == (8 * base_volume) \div 10
        lo == (2 * base_volume) \div 10
        lfe == (15 * base_volume) \div 100
    IN  CASE quadrant = 0 -> <<0, hi, lo, lfe, 0, 0>>
          [] quadrant = 1 -> <<0, lo, 0, lfe, 0, hi>>
          [] quadrant = 2 -> <<lo, 0, 0, lfe, hi, 0>>
          [] quadrant = 3 -> <<hi, 0, lo, lfe, 0, 0>>
          [] OTHER        -> <<0, 0, 0, lfe, 0, 0>>

\* Angles a Position is constructed with: the numbers of the format from below
\* -2 pi to above 4 pi.
Angles == {a \in (0 - TwoPi - Quarter)..(2 * TwoPi + Quarter) : Representable(a)}

\* Distances a Position is constructed with.
Distances == {0, 10, 25, 30, 40, 55, 70, 80}

\* Volume sections of the configuration: the shipped one, one with the two
\* distances equal, one with the two volumes equal, one with the distances
\* in the other order.
VolumeConfigs ==
    {[min_distance |-> 10, max_distance |-> 70, min_volume |-> 100, max_volume |-> 1000],
     [min_distance |-> 30, max_distance |-> 30, min_volume |-> 100, max_volume |-> 1000],
     [min_distance |-> 10, max_distance |-> 70, min_volume |-> 500, max_volume |-> 500],
     [min_distance |-> 55, max_distance |-> 25, min_volume |-> 200, max_volume |-> 800]}

\* returned before any call.
NothingReturned ==
    [op |-> "none", quadrant |-> 0, volume |-> 0, raised |-> FALSE, volumes |-> << >>,
     multiplier |-> 0]

\* Position(angle, distance): the rooster is given a position.
set_position(angle, distance) ==
    /\ position' = [angle |-> angle, distance |-> distance]
    /\ returned' = NothingReturned
    /\ UNCHANGED <<audio_vars, volume_config, clock_vars, sim_vars>>

\* A call of position.get_quadrant().
get_quadrant_call ==
    /\ returned' = [NothingReturned EXCEPT !.op = "get_quadrant",
                                           !.quadrant = get_quadrant(position.angle)]
    /\ UNCHANGED <<audio_vars, position, volume_config, clock_vars, sim_vars>>

\* A call of get_volume_for_distance().
get_volume_for_distance_call ==
    /\ LET r == get_volume_for_distance(position.distance)
       IN  returned' = [NothingReturned EXCEPT !.op = "get_volume_for_distance",
                                               !.volume = r.value, !.raised = r.raised]
    /\ UNCHANGED <<audio_vars, position, volume_config, clock_vars, sim_vars>>

\* A call of get_speaker_volumes().
get_speaker_volumes_call ==
    /\ LET r == get_volume_for_distance(position.distance)
       IN  returned' = [NothingReturned EXCEPT
                           !.op = "get_speaker_volumes",
                           !.raised = r.raised,
                           !.volumes = IF r.raised THEN << >>
                                       ELSE get_speaker_volumes(position)]
    /\ UNCHANGED <<audio_vars, position, volume_config, clock_vars, sim_vars>>

\* ------------------------------------------------------------ time of day

\* 24 * 60 * 60, the seconds of a day.
seconds_in_day == 24 * 60 * 60

\* _parse_time of a string split at ':' and read as integers, <<H, M>> or
\* <<H>>: seconds from midnight.
_parse_time(parts) ==
    LET hours == parts[1]
        minutes == IF Len(parts) > 1 THEN parts[2] ELSE 0
    IN  hours * 3600 + minutes * 60

\* The defaults of config.get(...): a run that starts at 06:00, a minute of
\* simulated time per second, dawn for an hour around 06:00, daylight from
\* 07:00 to 18:00.  Multipliers are in tenths.
DefaultTimes ==
    [start_time |-> <<6, 0>>, time_scale |-> 60, enabled |-> TRUE,
     dawn_time |-> <<6, 0>>, dawn_duration |-> 1, dawn_multiplier |-> 50,
     daylight_start |-> <<7, 0>>, daylight_end |-> <<18, 0>>,
     daylight_multiplier |-> 15, nighttime_multiplier |-> 3]

\* Configurations: the defaults; a dawn that lasts into the daylight; a dawn
\* around a quarter past midnight; a dawn centred on midnight, written "0";
\* the time of day switched off.
TimeConfigs ==
    {DefaultTimes,
     [DefaultTimes EXCEPT !.dawn_time = <<7, 0>>, !.dawn_duration = 2],
     [DefaultTimes EXCEPT !.dawn_time = <<0, 15>>, !.start_time = <<22, 30>>],
     [DefaultTimes EXCEPT !.dawn_time = <<0>>, !.dawn_duration = 2,
                          !.start_time = <<22, 30>>],
     [DefaultTimes EXCEPT !.enabled = FALSE]}

\* _get_simulation_time_of_day, in seconds from midnight.
_get_simulation_time_of_day ==
    LET elapsed_real == current_time
        elapsed_sim == elapsed_real * time_config.time_scale
        total_seconds == _parse_time(time_config.start_time) + elapsed_sim
    IN  total_seconds % seconds_in_day

\* _get_time_of_day_multiplier, in tenths.
_get_time_of_day_multiplier ==
    LET tod_config == time_config
        current_seconds == _get_simulation_time_of_day
        dawn_time == _parse_time(tod_config.dawn_time)
        dawn_duration == tod_config.dawn_duration * 3600
        dawn_start == dawn_time - dawn_duration \div 2
        dawn_end == dawn_time + dawn_duration \div 2
        dawn_start_seconds == dawn_start % (24 * 3600)
        dawn_end_seconds == dawn_end % (24 * 3600)
        daylight_start_seconds == _parse_time(tod_config.daylight_start)
        daylight_end_seconds == _parse_time(tod_config.daylight_end)
    IN  IF ~tod_config.enabled THEN 10
        ELSE IF dawn_start_seconds <= current_seconds /\ current_seconds <= dawn_end_seconds
        THEN tod_config.dawn_multiplier
        ELSE IF /\ daylight_start_seconds <= current_seconds
                /\ current_seconds <= daylight_end_seconds
        THEN tod_config.daylight_multiplier
        ELSE tod_config.nighttime_multiplier

\* Seconds between two readings of the clock, and the reading after which the
\* model stops the clock.
ClockStep == 15
MaxClock == 1500

\* `self.current_time = time.time()`: the clock is read again.
clock_read ==
    /\ current_time + ClockStep <= MaxClock
    /\ current_time' = current_time + ClockStep
    /\ returned' = NothingReturned
    /\ UNCHANGED <<audio_vars, gain_vars, time_config, sim_vars>>

\* A call of _get_time_of_day_multiplier().
get_time_of_day_multiplier_call ==
    /\ returned' = [NothingReturned EXCEPT !.op = "_get_time_of_day_multiplier",
                                           !.multiplier = _get_time_of_day_multiplier]
    /\ UNCHANGED <<audio_vars, gain_vars, clock_vars, sim_vars>>

\* ------------------------------------------------------------ simulator

\* range(num_roosters): the ids of the roosters.
RoosterIds == {0, 1}

\* The places roosters are at, all on the axes: the first two within
\* trigger_distance of each other, the third far from both.
Places ==
    <<[angle |-> 0, distance |-> 10],
      [angle |-> Quarter, distance |-> 10],
      [angle |-> 2 * Quarter, distance |-> 70]>>

\* config['calling']['proximity_response']['trigger_distance'].
trigger_distance == 20

\* Rooster.call_duration and config['time_unit'] with time_randomization 0
\* (the value of every _calculate_next_check), in seconds.
call_duration == 2
time_unit == 2

\* The names _choose_call returns: the default call, which is missing from the
\* calls directory, or a file of it.
CallNames == {"gone.wav", "a.wav"}

\* Rooster.__init__ at a position.  current_time counts from the start of the
\* run, where time.time() is far beyond the checks set at construction.
NewRooster(pos) ==
    [position |-> pos, is_calling |-> FALSE, call_start_time |-> 0,
     next_call_check |-> -1, next_move_check |-> -1]

\* The simulator's fields after __init__, apart from the roosters.
SimAtRest ==
    /\ stats = [total_calls |-> 0, total_moves |-> 0, proximity_responses |-> 0]
    /\ sim_pc = "idle"
    /\ calling_roosters = << >>
    /\ nearby_seen = [r \in RoosterIds |-> {}]
    /\ call_started = {}

\* Position.to_cartesian for an angle that is a multiple of pi/2.
to_cartesian(pos) ==
    LET k == (pos.angle \div Quarter) % 4
    IN  CASE k = 0 -> <<pos.distance, 0>>
          [] k = 1 -> <<0, pos.distance>>
          [] k = 2 -> <<0 - pos.distance, 0>>
          [] OTHER -> <<0, 0 - pos.distance>>

\* `rooster.position.distance_to(other.position) <= trigger_distance`, both
\* sides squared.
within_trigger_distance(a, b) ==
    LET p1 == to_cartesian(a)
        p2 == to_cartesian(b)
    IN  (p2[1] - p1[1]) * (p2[1] - p1[1]) + (p2[2] - p1[2]) * (p2[2] - p1[2])
          <= trigger_distance * trigger_distance

\* _get_nearby_calling_roosters(rooster) among the roosters rs: the ids.
_get_nearby_calling_roosters(rs, r) ==
    {o \in RoosterIds :
        /\ o # r
        /\ rs[o].is_calling
        /\ within_trigger_distance(rs[r].position, rs[o].position)}

\* Rooster.update_calling_state.
update_calling_state(rooster, now) ==
    IF rooster.is_calling /\ now - rooster.call_start_time > call_duration
    THEN [rooster EXCEPT !.is_calling = FALSE]
    ELSE rooster

\* A set of ids as the list in which `for rooster in self.roosters` meets them.
RECURSIVE InOrder(_)
InOrder(ids) ==
    IF ids = {} THEN << >>
    ELSE LET first == CHOOSE i \in ids : \A j \in ids : i <= j
         IN  <<first>> \o InOrder(ids \ {first})

\* The last reading of the clock in the model, and what it advances by.
MaxSimTime == 3
SimSteps == {1, 2}

\* One iteration of run() up to the end of the third pass of _update_roosters:
\* the clock read, calls that have lasted ended, the roosters due for a move
\* moved or not (movers, to the places given), those due for a call asked
\* (deciders are those for which should_call returns True), and the list of
\* calls to execute made.  The multiplier of the time of day only weights the
\* chance should_call takes.
update_roosters_decide(dt, moves, deciders) ==
    LET now == current_time + dt
        pass1 == [r \in RoosterIds |-> update_calling_state(roosters[r], now)]
        due_move == {r \in RoosterIds : now >= pass1[r].next_move_check}
        pass2 == [r \in RoosterIds |->
                    IF r \in due_move
                    THEN [pass1[r] EXCEPT
                            !.next_move_check = now + time_unit,
                            !.position = IF r \in DOMAIN moves THEN moves[r] ELSE @]
                    ELSE pass1[r]]
        due_call == {r \in RoosterIds : now >= pass2[r].next_call_check}
        nearby == [r \in RoosterIds |-> _get_nearby_calling_roosters(pass2, r)]
        pass3 == [r \in RoosterIds |->
                    IF r \in due_call
                    THEN [pass2[r] EXCEPT !.next_call_check = now + time_unit]
                    ELSE pass2[r]]
        ordered == InOrder(deciders)
    IN  /\ sim_pc = "idle"
        /\ now <= MaxSimTime
        /\ DOMAIN moves \subseteq due_move
        /\ deciders \subseteq due_call
        /\ next_sound_id + Cardinality(deciders) <= MaxSounds
        /\ current_time' = now
        /\ roosters' = pass3
        /\ stats' = [stats EXCEPT !.total_moves = @ + Cardinality(DOMAIN moves)]
        /\ calling_roosters' =
              [k \in DOMAIN ordered |->
                  [rooster |-> ordered[k], is_response |-> nearby[ordered[k]] # {}]]
        /\ nearby_seen' = nearby
        /\ call_started' = {}
        /\ sim_pc' = IF deciders = {} THEN "idle" ELSE "execute"
        /\ UNCHANGED <<audio_vars, gain_vars, returned, time_config>>

\* The fourth pass for the next rooster of the list, up to the lock inside
\* play_sound: start_call, get_speaker_volumes, load_audio, and play_sound's
\* `return None` when the load fails.
update_roosters_execute(call_filename) ==
    LET r == Head(calling_roosters).rooster
        speaker_volumes == get_speaker_volumes(roosters[r].position)
        loaded == load_audio(call_filename)
    IN  /\ sim_pc = "execute"
        /\ pc["p1"] = "idle"
        /\ roosters' = [roosters EXCEPT ![r].is_calling = TRUE,
                                        ![r].call_start_time = current_time]
        /\ call_started' = call_started \cup {r}
        /\ audio_cache' = loaded.cache
        /\ tmp_files' = loaded.tmp
        /\ IF ~loaded.ok
           THEN /\ ret' = None
                /\ UNCHANGED <<pc, local>>
           ELSE /\ pc' = [pc EXCEPT !["p1"] = "loaded"]
                /\ local' = [local EXCEPT !["p1"] =
                      [data |-> loaded.data, volumes |-> speaker_volumes, sound_id |-> -1]]
                /\ UNCHANGED ret
        /\ sim_pc' = "playing"
        /\ UNCHANGED <<loading, printed, files, lock, registry_vars, stream_vars,
                       callback_vars, gain_vars, returned, clock_vars, stats,
                       calling_roosters, nearby_seen>>

\* Variant: a call is counted only when play_sound has returned an id.
counted_calls_played(sound_id) == IF sound_id.none THEN 0 ELSE 1

\* `self.stats['total_calls'] += 1`: sound_id, just assigned, is not read.
counted_calls(sound_id) == 1

\* The fourth pass after play_sound has returned: the statistics, and on to
\* the next rooster of the list or out of _update_roosters.
update_roosters_count ==
    /\ sim_pc = "playing"
    /\ pc["p1"] = "idle"
    /\ stats' = [stats EXCEPT
                    !.total_calls = @ + counted_calls(ret),
                    !.proximity_responses =
                        IF Head(calling_roosters).is_response THEN @ + 1 ELSE @]
    /\ calling_roosters' = Tail(calling_roosters)
    /\ sim_pc' = IF Tail(calling_roosters) = << >> THEN "idle" ELSE "execute"
    /\ UNCHANGED <<audio_vars, gain_vars, returned, clock_vars, roosters, nearby_seen,
                   call_started>>

\* ------------------------------------------------------------ the lock

\* Variant: the lock excludes nobody.
lock_never_held == TRUE

\* threading.Lock: a thread enters `with self.lock:` only when no thread holds it.
lock_available == lock = "free"

\* ------------------------------------------------------------ producers

\* The model stops issuing calls once MaxSounds sounds are registered or on
\* their way to the registry.
Budget ==
    next_sound_id + Cardinality({q \in Producers : pc[q] # "idle"}) < MaxSounds

\* Variant: play_sound without `if audio_data is None: return None`.
play_sound_call_unchecked(p, filename, speaker_volumes) ==
    /\ pc[p] = "idle"
    /\ Budget
    /\ LET r == load_audio(filename)
       IN  /\ audio_cache' = r.cache
           /\ tmp_files' = r.tmp
           /\ pc' = [pc EXCEPT ![p] = "loaded"]
           /\ local' = [local EXCEPT ![p] =
                 [data |-> r.data, volumes |-> speaker_volumes, sound_id |-> -1]]
    /\ UNCHANGED <<world_vars, loading, printed, files, lock, registry_vars, stream_vars, callback_vars, ret>>

\* play_sound up to the lock: load_audio, and `return None` when it fails.
play_sound_call(p, filename, speaker_volumes) ==
    /\ pc[p] = "idle"
    /\ Budget
    /\ LET r == load_audio(filename)
       IN  /\ audio_cache' = r.cache
           /\ tmp_files' = r.tmp
           /\ IF ~r.ok
              THEN /\ ret' = None
                   /\ UNCHANGED <<pc, local>>
              ELSE /\ pc' = [pc EXCEPT ![p] = "loaded"]
                   /\ local' = [local EXCEPT ![p] =
                         [data |-> r.data, volumes |-> speaker_volumes, sound_id |-> -1]]
                   /\ UNCHANGED ret
    /\ UNCHANGED <<world_vars, loading, printed, files, lock, registry_vars, stream_vars, callback_vars>>

\* play_test_tone up to the lock: the tone and its gain vector.
play_test_tone_call(p, quadrant, distance) ==
    /\ pc[p] = "idle"
    /\ Budget
    /\ pc' = [pc EXCEPT ![p] = "loaded"]
    /\ local' = [local EXCEPT ![p] =
          [data |-> create_test_tone, volumes |-> tone_volumes(quadrant, distance),
           sound_id |-> -1]]
    /\ UNCHANGED <<world_vars, loading, printed, files, tmp_files, audio_cache, lock, registry_vars, stream_vars,
                   callback_vars, ret>>

\* play_test_tone up to the lock, by an audio system built with the
\* configuration the roosters are built with.
play_test_tone_configured(p, quadrant, distance) ==
    /\ pc[p] = "idle"
    /\ Budget
    /\ pc' = [pc EXCEPT ![p] = "loaded"]
    /\ local' = [local EXCEPT ![p] =
          [data |-> create_test_tone,
           volumes |-> tone_volumes_under(volume_config, quadrant, distance),
           sound_id |-> -1]]
    /\ UNCHANGED <<world_vars, loading, printed, files, tmp_files, audio_cache, lock, registry_vars, stream_vars,
                   callback_vars, ret>>

\* `with self.lock:` entered, and `sound_id = self.next_sound_id`.
allocate_id(p) ==
    /\ pc[p] = "loaded"
    /\ lock_available
    /\ lock' = p
    /\ pc' = [pc EXCEPT ![p] = "locked"]
    /\ local' = [local EXCEPT ![p].sound_id = next_sound_id]
    /\ UNCHANGED <<world_vars, loading, printed, files, tmp_files, audio_cache, registry_vars, stream_vars,
                   callback_vars, ret>>

\* Variant: the registry is replaced by one holding the new sound alone.
Registered_alone(sound_id, data, volumes) ==
    [i \in {sound_id} |-> [data |-> data, position |-> 0, volumes |-> volumes]]

\* active_sounds with the new sound stored under sound_id.
Registered(sound_id, data, volumes) ==
    [i \in DOMAIN active_sounds \cup {sound_id} |->
        IF i = sound_id
        THEN [data |-> data, position |-> 0, volumes |-> volumes]
        ELSE active_sounds[i]]

\* Variant: the producer returns without releasing the lock.
register_sound_holding(p) ==
    /\ pc[p] = "locked"
    /\ next_sound_id' = next_sound_id + 1
    /\ active_sounds' = Registered(local[p].sound_id, local[p].data, local[p].volumes)
    /\ ticks' = [i \in DOMAIN active_sounds' |->
                    IF i = local[p].sound_id THEN 0 ELSE ticks[i]]
    /\ ret' = Value(local[p].sound_id)
    /\ pc' = [pc EXCEPT ![p] = "idle"]
    /\ local' = [local EXCEPT ![p] = NoLocal]
    /\ UNCHANGED <<world_vars, loading, printed, files, tmp_files, audio_cache, lock, retired,
                   stream_vars, callback_vars>>

\* `self.next_sound_id += 1`, the insertion, the lock's release, `return sound_id`.
register_sound(p) ==
    /\ pc[p] = "locked"
    /\ next_sound_id' = next_sound_id + 1
    /\ active_sounds' = Registered(local[p].sound_id, local[p].data, local[p].volumes)
    /\ ticks' = [i \in DOMAIN active_sounds' |->
                    IF i = local[p].sound_id THEN 0 ELSE ticks[i]]
    /\ lock' = "free"
    /\ ret' = Value(local[p].sound_id)
    /\ pc' = [pc EXCEPT ![p] = "idle"]
    /\ local' = [local EXCEPT ![p] = NoLocal]
    /\ UNCHANGED <<world_vars, loading, printed, files, tmp_files, audio_cache, retired, stream_vars, callback_vars>>

\* Variant: the count is read without taking the lock.
get_active_sound_count_unlocked ==
    /\ ret' = Value(Cardinality(DOMAIN active_sounds))
    /\ UNCHANGED <<world_vars, loading, printed, files, tmp_files, audio_cache, lock, registry_vars,
                   stream_vars, callback_vars, pc, local>>

\* get_active_sound_count, called by the main thread.
get_active_sound_count ==
    /\ lock_available
    /\ ret' = Value(Cardinality(DOMAIN active_sounds))
    /\ UNCHANGED <<world_vars, loading, printed, files, tmp_files, audio_cache, lock, registry_vars, stream_vars,
                   callback_vars, pc, local>>

\* ------------------------------------------------------------ play_sound, load by steps

\* Names passed to play_sound when its load is taken step by step.
LoadNames == FileNames

\* Gain vectors passed with them.
LoadGains == {FrontLeftOnly}

\* As Budget, counting also the producers inside load_audio.
LoadBudget ==
    next_sound_id
      + Cardinality({q \in Producers : pc[q] # "idle" \/ loading[q].stage # "idle"})
        < MaxSounds

\* What load_audio hands back to play_sound.
Returned(filename, r) ==
    [stage |-> "done", filename |-> filename, ok |-> r.ok, data |-> r.data, rate |-> r.rate,
     calls |-> r.calls, error |-> r.error]

\* Variant: the cache entry is created empty before the file is decoded.
load_audio_lookup_publishing(p, filename) ==
    /\ pc[p] = "idle" /\ loading[p].stage = "idle"
    /\ LoadBudget
    /\ IF filename \in DOMAIN audio_cache
       THEN /\ loading' = [loading EXCEPT ![p] = Returned(filename, load_audio(filename))]
            /\ UNCHANGED audio_cache
       ELSE /\ loading' = [loading EXCEPT ![p] = [NotLoading EXCEPT !.stage = "miss",
                                                                   !.filename = filename]]
            /\ audio_cache' = CacheWith(filename, << >>, 0)
    /\ UNCHANGED <<world_vars, printed, files, tmp_files, lock, registry_vars, stream_vars,
                   callback_vars, producer_vars>>

\* Variant: a cached name is looked up again when its file is no longer there.
load_audio_lookup_revalidating(p, filename) ==
    /\ pc[p] = "idle" /\ loading[p].stage = "idle"
    /\ LoadBudget
    /\ IF filename \in DOMAIN audio_cache /\ files[filename].exists
       THEN loading' = [loading EXCEPT ![p] = Returned(filename, load_audio(filename))]
       ELSE loading' = [loading EXCEPT ![p] = [NotLoading EXCEPT !.stage = "miss",
                                                                 !.filename = filename]]
    /\ UNCHANGED <<world_vars, printed, files, tmp_files, audio_cache, lock, registry_vars, stream_vars,
                   callback_vars, producer_vars>>

\* play_sound's call of load_audio up to `if filename in self.audio_cache`:
\* the cached pair is returned, or the load goes on to the file.
load_audio_lookup(p, filename) ==
    /\ pc[p] = "idle" /\ loading[p].stage = "idle"
    /\ LoadBudget
    /\ IF filename \in DOMAIN audio_cache
       THEN loading' = [loading EXCEPT ![p] = Returned(filename, load_audio(filename))]
       ELSE loading' = [loading EXCEPT ![p] = [NotLoading EXCEPT !.stage = "miss",
                                                                 !.filename = filename]]
    /\ UNCHANGED <<world_vars, printed, files, tmp_files, audio_cache, lock, registry_vars, stream_vars,
                   callback_vars, producer_vars>>

\* Variant: the file is decoded with the registry lock taken.
load_audio_decode_locked(p) ==
    /\ loading[p].stage = "miss"
    /\ lock_available
    /\ lock' = p
    /\ LET r == load_audio_miss(loading[p].filename)
       IN  /\ audio_cache' = r.cache
           /\ tmp_files' = r.tmp
           /\ loading' = [loading EXCEPT ![p] = Returned(loading[p].filename, r)]
    /\ UNCHANGED <<world_vars, printed, files, registry_vars, stream_vars, callback_vars,
                   producer_vars>>

\* The rest of load_audio for a name not found in the cache: the path tested,
\* the file decoded (or transcoded and decoded), the pair stored and returned.
\* The file system is read and the temporary file is private to the call, so
\* the store into audio_cache is the one access other threads can observe.
load_audio_decode(p) ==
    /\ loading[p].stage = "miss"
    /\ LET r == load_audio_miss(loading[p].filename)
       IN  /\ audio_cache' = r.cache
           /\ tmp_files' = r.tmp
           /\ loading' = [loading EXCEPT ![p] = Returned(loading[p].filename, r)]
    /\ UNCHANGED <<world_vars, printed, files, lock, registry_vars, stream_vars, callback_vars,
                   producer_vars>>

\* play_sound after load_audio has returned: `return None`, or on to the lock.
play_sound_loaded(p, speaker_volumes) ==
    /\ loading[p].stage = "done"
    /\ IF ~loading[p].ok
       THEN /\ ret' = None
            /\ UNCHANGED <<pc, local>>
       ELSE /\ pc' = [pc EXCEPT ![p] = "loaded"]
            /\ local' = [local EXCEPT ![p] =
                  [data |-> loading[p].data, volumes |-> speaker_volumes, sound_id |-> -1]]
            /\ UNCHANGED ret
    /\ loading' = [loading EXCEPT ![p] = NotLoading]
    /\ UNCHANGED <<world_vars, printed, files, tmp_files, audio_cache, lock, registry_vars, stream_vars,
                   callback_vars>>

\* ------------------------------------------------------------ the calls directory

\* Files of the calls directory that change while the program runs.
ChangingFiles == {"a.wav", "ok.mp3"}

\* What a replaced file decodes to.
ReplacedFrames == << <<5>>, <<6>> >>

\* A file is deleted: os.path.exists answers False from now on.
file_removed(name) ==
    /\ files[name].exists
    /\ files' = [files EXCEPT ![name].exists = FALSE]
    /\ UNCHANGED <<world_vars, loading, printed, tmp_files, audio_cache, lock, registry_vars, stream_vars,
                   callback_vars, producer_vars>>

\* A file is overwritten with other audio that soundfile decodes.
file_replaced(name) ==
    /\ files[name].exists
    /\ files[name].frames # ReplacedFrames
    /\ files' = [files EXCEPT ![name].frames = ReplacedFrames, ![name].sf_ok = TRUE]
    /\ UNCHANGED <<world_vars, loading, printed, tmp_files, audio_cache, lock, registry_vars, stream_vars,
                   callback_vars, producer_vars>>

\* ------------------------------------------------------------ mixing callback

\* Variant: one frame fewer than requested is read.
frames_to_read_short(sound, frames) == Min(frames - 1, Len(sound.data) - sound.position)

\* frames_to_read of one sound for a callback of `frames` frames.
frames_to_read(sound, frames) == Min(frames, Len(sound.data) - sound.position)

\* Variant: the LFE gain is folded into both downmix channels.
downmix_with_lfe(volumes) ==
    <<volumes[1] + (7 * volumes[3]) \div 10 + (7 * volumes[5]) \div 10 + volumes[4],
      volumes[2] + (7 * volumes[3]) \div 10 + (7 * volumes[6]) \div 10 + volumes[4]>>

\* The downmix gains of a 5.1 gain vector: (left, right).
downmix(volumes) ==
    <<volumes[1] + (7 * volumes[3]) \div 10 + (7 * volumes[5]) \div 10,
      volumes[2] + (7 * volumes[3]) \div 10 + (7 * volumes[6]) \div 10>>

\* Variant: a 2-channel stream is always mixed with the downmix gains.
channel_gain_downmixing(sound, ch) ==
    IF is_stereo_mode \/ channels = 2
    THEN IF ch <= 2 THEN downmix(sound.volumes)[ch] ELSE 0
    ELSE IF ch <= Len(sound.volumes) /\ ch <= channels THEN sound.volumes[ch] ELSE 0

\* The gain one sound is mixed with into output channel ch (1-based).
channel_gain(sound, ch) ==
    IF is_stereo_mode
    THEN IF ch <= 2 THEN downmix(sound.volumes)[ch] ELSE 0
    ELSE IF ch <= Len(sound.volumes) /\ ch <= channels THEN sound.volumes[ch] ELSE 0

\* What one sound adds to outdata[f, ch] (f 1-based): segment * gain on the
\* first frames_to_read frames, nothing after them.
contribution(sound, frames, f, ch) ==
    IF f <= frames_to_read(sound, frames)
    THEN sound.data[sound.position + f] * channel_gain(sound, ch)
    ELSE 0

\* Variant: each sound overwrites the cell instead of adding to it.
mix_sum_replacing(ids, frames, f, ch) ==
    IF ids = {} THEN 0
    ELSE LET i == CHOOSE x \in ids : \A y \in ids : y <= x
         IN  contribution(active_sounds[i], frames, f, ch)

RECURSIVE mix_sum(_, _, _, _)
mix_sum(ids, frames, f, ch) ==
    IF ids = {} THEN 0
    ELSE LET i == CHOOSE x \in ids : TRUE
         IN  contribution(active_sounds[i], frames, f, ch)
             + mix_sum(ids \ {i}, frames, f, ch)

\* Variant: every cell is limited to a fixed amplitude.
mixed_block_clamped(frames) ==
    [f \in 1..frames |-> [ch \in 1..channels |->
        LET limit == 1000 * 4
            sum == mix_sum(DOMAIN active_sounds, frames, f, ch)
        IN  IF sum > limit THEN limit ELSE IF sum < -limit THEN -limit ELSE sum]]

\* outdata after the loop over active_sounds: zero-filled, then every sound added.
mixed_block(frames) ==
    [f \in 1..frames |-> [ch \in 1..channels |->
        mix_sum(DOMAIN active_sounds, frames, f, ch)]]

\* Variant: the position advances by the size of the block.
advanced_by_block(sound, frames) ==
    IF frames_to_read(sound, frames) > 0
    THEN [sound EXCEPT !.position = sound.position + frames]
    ELSE sound

\* Variant: a sound mixed to its end is silenced as well.
advanced_muting(sound, frames) ==
    IF frames_to_read(sound, frames) > 0
    THEN IF sound.position + frames_to_read(sound, frames) >= Len(sound.data)
         THEN [sound EXCEPT !.position = sound.position + frames_to_read(sound, frames),
                            !.volumes = <<0, 0, 0, 0, 0, 0>>]
         ELSE [sound EXCEPT !.position = sound.position + frames_to_read(sound, frames)]
    ELSE sound

\* A sound after the loop body: position advanced when frames_to_read > 0.
advanced(sound, frames) ==
    IF frames_to_read(sound, frames) > 0
    THEN [sound EXCEPT !.position = sound.position + frames_to_read(sound, frames)]
    ELSE sound

\* Variant: a sound counts as finished one frame before its end.
finished_early(sound) == sound.position + 1 >= Len(sound.data)

\* `if sound_info['position'] >= len(audio_data)`.
finished(sound) == sound.position >= Len(sound.data)

\* _audio_callback from its entry to the end of the loop over active_sounds:
\* `if status: print(...)`, outdata.fill(0), the lock taken, every sound mixed
\* and advanced, the finished ones collected.
audio_callback_entry(frames, status) ==
    /\ stream = "active"
    /\ pc["cb"] = "idle"
    /\ lock_available
    /\ lock' = "cb"
    /\ outdata' = mixed_block(frames)
    /\ active_sounds' = [i \in DOMAIN active_sounds |-> advanced(active_sounds[i], frames)]
    /\ sounds_to_remove' = {i \in DOMAIN active_sounds : finished(active_sounds'[i])}
    /\ ticks' = [i \in DOMAIN ticks |-> ticks[i] + 1]
    /\ pc' = [pc EXCEPT !["cb"] = "remove"]
    /\ printed' = status
    /\ UNCHANGED <<world_vars, loading, files, tmp_files, audio_cache, next_sound_id, retired,
                   stream_vars, local, ret>>

\* A callback the audio subsystem invokes with no status flag set.
audio_callback_mix(frames) == audio_callback_entry(frames, NoStatus)

\* _audio_callback's removal loop, the lock's release and the return; the
\* device takes the buffer.
audio_callback_remove ==
    /\ pc["cb"] = "remove"
    /\ active_sounds' = [i \in DOMAIN active_sounds \ sounds_to_remove |-> active_sounds[i]]
    /\ ticks' = [i \in DOMAIN active_sounds' |-> ticks[i]]
    /\ retired' = [i \in DOMAIN retired \cup sounds_to_remove |->
                      IF i \in sounds_to_remove
                      THEN active_sounds[i].position = Len(active_sounds[i].data)
                      ELSE retired[i]]
    /\ sounds_to_remove' = {}
    /\ outdata' = << >>
    /\ lock' = "free"
    /\ pc' = [pc EXCEPT !["cb"] = "idle"]
    /\ UNCHANGED <<world_vars, loading, printed, files, tmp_files, audio_cache, next_sound_id, stream_vars, local, ret>>

\* ------------------------------------------------------------ output stream

\* self.stream after an attempt to open: the constructor's result is assigned
\* before stream.start() runs, and nothing is assigned when the constructor raises.
after_open(held, outcome) ==
    CASE outcome = "ok"         -> "active"
      [] outcome = "start_fail" -> "created"
      [] OTHER                  -> held

\* The streams one attempt leaves open on the device: sd.OutputStream(...)
\* opens one unless it raises, and start_stream closes none when start() raises.
constructed(outcome) == IF outcome = "ctor_fail" THEN 0 ELSE 1

\* Variant: the fallback is also taken from 2 channels.
falls_back_from_stereo == channels >= 2

\* `if self.channels > 2` in the handler of the first attempt's exception.
falls_back == channels > 2

\* Variant: start_stream without `if self.stream is not None: return`.
start_stream_reopening(first, second) ==
    /\ IF first = "ok"
       THEN /\ stream' = "active"
            /\ open_log' = <<channels>>
            /\ UNCHANGED <<channels, is_stereo_mode>>
       ELSE IF falls_back
       THEN /\ channels' = 2
            /\ is_stereo_mode' = TRUE
            /\ stream' = after_open(after_open(stream, first), second)
            /\ open_log' = <<channels, 2>>
       ELSE /\ stream' = after_open(stream, first)
            /\ open_log' = <<channels>>
            /\ UNCHANGED <<channels, is_stereo_mode>>
    /\ UNCHANGED <<world_vars, loading, printed, files, tmp_files, audio_cache, lock, registry_vars, requested_channels,
                   callback_vars, producer_vars>>

\* start_stream; first and second are the device's answers to the attempts made.
start_stream(first, second) ==
    /\ IF stream # "none"
       THEN /\ open_log' = << >>
            /\ UNCHANGED <<stream, channels, is_stereo_mode>>
       ELSE IF first = "ok"
       THEN /\ stream' = "active"
            /\ open_log' = <<channels>>
            /\ UNCHANGED <<channels, is_stereo_mode>>
       ELSE IF falls_back
       THEN /\ channels' = 2
            /\ is_stereo_mode' = TRUE
            /\ stream' = after_open(after_open(stream, first), second)
            /\ open_log' = <<channels, 2>>
       ELSE /\ stream' = after_open(stream, first)
            /\ open_log' = <<channels>>
            /\ UNCHANGED <<channels, is_stereo_mode>>
    /\ UNCHANGED <<world_vars, loading, printed, files, tmp_files, audio_cache, lock, registry_vars, requested_channels,
                   callback_vars, producer_vars>>

\* The streams a start_stream that finds none held has opened on the device
\* when it returns, first and second being the device's answers.
opened_streams(first, second) ==
    IF first = "ok" THEN 1
    ELSE IF falls_back THEN constructed(first) + constructed(second)
    ELSE constructed(first)

\* Variant: stopping the stream also empties the registry.
stop_stream_clearing ==
    /\ pc["cb"] = "idle"
    /\ stream' = "none"
    /\ active_sounds' = << >>
    /\ ticks' = << >>
    /\ UNCHANGED <<world_vars, loading, printed, files, tmp_files, audio_cache, lock, next_sound_id, retired, channels,
                   is_stereo_mode, requested_channels, open_log, callback_vars,
                   producer_vars>>

\* Variant: stopping the stream forgets the fallback.
stop_stream_resetting ==
    /\ pc["cb"] = "idle"
    /\ stream' = "none"
    /\ channels' = requested_channels
    /\ is_stereo_mode' = FALSE
    /\ UNCHANGED <<world_vars, loading, printed, files, tmp_files, audio_cache, lock, registry_vars,
                   requested_channels, open_log, callback_vars, producer_vars>>

\* stop_stream; stream.stop() returns once no callback is running.
stop_stream ==
    /\ pc["cb"] = "idle"
    /\ stream' = "none"
    /\ UNCHANGED <<world_vars, loading, printed, files, tmp_files, audio_cache, lock, registry_vars, channels,
                   is_stereo_mode, requested_channels, open_log, callback_vars,
                   producer_vars>>

\* ------------------------------------------------------------ specification

\* AudioSystem.__init__.
AudioSystemInit(configured) ==
    /\ files = InitialFiles
    /\ tmp_files = {}
    /\ audio_cache = << >>
    /\ active_sounds = << >>
    /\ next_sound_id = 0
    /\ lock = "free"
    /\ stream = "none"
    /\ requested_channels \in configured
    /\ channels = requested_channels
    /\ is_stereo_mode = FALSE
    /\ open_log = << >>
    /\ pc = [t \in Producers \cup {"cb"} |-> "idle"]
    /\ local = [p \in Producers |-> NoLocal]
    /\ ret = Pending
    /\ sounds_to_remove = {}
    /\ outdata = << >>
    /\ ticks = << >>
    /\ retired = << >>
    /\ loading = [p \in Producers |-> NotLoading]
    /\ printed = NoStatus

AudioInit == AudioSystemInit(RequestedChannels)

\* What is not constructed is empty: no clock, no simulator, no rooster.
NoClock ==
    /\ current_time = 0
    /\ time_config = << >>
NoSimulator ==
    /\ roosters = << >>
    /\ stats = << >>
    /\ sim_pc = "idle"
    /\ calling_roosters = << >>
    /\ nearby_seen = << >>
    /\ call_started = {}
NoRooster ==
    /\ position = << >>
    /\ volume_config = << >>
    /\ returned = << >>

\* An AudioSystem constructed on its own.
Init ==
    /\ AudioInit
    /\ NoClock
    /\ NoSimulator
    /\ NoRooster

Next ==
    \/ \E p \in Producers, i \in PlayInputs : play_sound_call(p, i[1], i[2])
    \/ \E p \in Producers, t \in ToneInputs : play_test_tone_call(p, t[1], t[2])
    \/ \E p \in Producers : allocate_id(p)
    \/ \E p \in Producers : register_sound(p)
    \/ get_active_sound_count
    \/ audio_callback_mix(BlockSize)
    \/ audio_callback_remove
    \/ \E first \in Outcomes, second \in Outcomes : start_stream(first, second)
    \/ stop_stream

Spec == Init /\ [][Next]_vars

\* The audio subsystem keeps invoking the callback of an active stream, the
\* callback gets the lock when it is free again and again, and a thread inside
\* `with self.lock:` leaves it.  The main thread and the producers are free to
\* make no further calls.
Fairness ==
    /\ SF_vars(audio_callback_mix(BlockSize))
    /\ WF_vars(audio_callback_remove)
    /\ \A p \in Producers : WF_vars(register_sound(p))

FairSpec == Spec /\ Fairness

\* As FairSpec, with a fair lock: a producer that finds the lock free again and
\* again gets it.
FairLockSpec == FairSpec /\ \A p \in Producers : SF_vars(allocate_id(p))

\* play_sound with its load taken step by step, for the producers ps.
play_sound_steps(ps) ==
    \/ \E p \in ps, n \in LoadNames : load_audio_lookup(p, n)
    \/ \E p \in ps : load_audio_decode(p)
    \/ \E p \in ps, v \in LoadGains : play_sound_loaded(p, v)
    \/ \E p \in ps : allocate_id(p)
    \/ \E p \in ps : register_sound(p)

\* Concurrent producers loading from a calls directory that does not change.
NextRace == play_sound_steps(Producers)

SpecRace == Init /\ [][NextRace]_vars

\* One producer loading from a calls directory whose files come and go.
NextCache ==
    \/ play_sound_steps({"p1"})
    \/ \E n \in ChangingFiles : file_removed(n)
    \/ \E n \in ChangingFiles : file_replaced(n)

SpecCache == Init /\ [][NextCache]_vars

\* Producers loading step by step while the callback of a stream mixes.
NextLoad ==
    \/ play_sound_steps(Producers)
    \/ audio_callback_mix(BlockSize)
    \/ audio_callback_remove
    \/ \E first \in Outcomes, second \in Outcomes : start_stream(first, second)

SpecLoad == Init /\ [][NextLoad]_vars

\* Sounds played through a stream configured for 1, 2, 4 or 6 channels.
InitChannels ==
    /\ AudioSystemInit(ConfiguredChannels)
    /\ NoClock
    /\ NoSimulator
    /\ NoRooster

NextChannels ==
    \/ \E p \in Producers, i \in PlayInputs : play_sound_call(p, i[1], i[2])
    \/ \E p \in Producers : allocate_id(p)
    \/ \E p \in Producers : register_sound(p)
    \/ audio_callback_mix(BlockSize)
    \/ audio_callback_remove
    \/ \E first \in Outcomes, second \in Outcomes : start_stream(first, second)
    \/ stop_stream

SpecChannels == InitChannels /\ [][NextChannels]_vars

\* Test tones played by an audio system under any of the volume configurations.
InitTone ==
    /\ AudioInit
    /\ NoClock
    /\ NoSimulator
    /\ position = << >>
    /\ volume_config \in VolumeConfigs
    /\ returned = << >>

NextTone ==
    \/ \E q \in TestQuadrants, d \in Distances : play_test_tone_configured("p1", q, d)
    \/ allocate_id("p1")
    \/ register_sound("p1")

SpecTone == InitTone /\ [][NextTone]_vars

\* A rooster placed anywhere, under any of the volume configurations, asked
\* for its quadrant, its volume and its speaker volumes.
InitGains ==
    /\ AudioInit
    /\ NoClock
    /\ NoSimulator
    /\ position = [angle |-> 0, distance |-> 0]
    /\ volume_config \in VolumeConfigs
    /\ returned = NothingReturned

NextGains ==
    \/ \E a \in Angles, d \in Distances : set_position(a, d)
    \/ get_quadrant_call
    \/ get_volume_for_distance_call
    \/ get_speaker_volumes_call

SpecGains == InitGains /\ [][NextGains]_vars

\* The clock running for more than a day under each of the configurations,
\* the multiplier asked for at every reading.
InitTimeOfDay ==
    /\ AudioInit
    /\ NoSimulator
    /\ position = << >>
    /\ volume_config = << >>
    /\ returned = NothingReturned
    /\ current_time = 0
    /\ time_config \in TimeConfigs

NextTimeOfDay ==
    \/ clock_read
    \/ get_time_of_day_multiplier_call

SpecTimeOfDay == InitTimeOfDay /\ [][NextTimeOfDay]_vars

\* The simulator's loop over two roosters, the first two places within
\* trigger_distance of each other, with no output stream open.
InitSim ==
    /\ AudioInit
    /\ position = << >>
    /\ volume_config = [min_distance |-> config.min_distance,
                        max_distance |-> config.max_distance,
                        min_volume |-> config.min_volume,
                        max_volume |-> config.max_volume]
    /\ returned = << >>
    /\ current_time = 0
    /\ time_config = DefaultTimes
    /\ \E first \in 1..Len(Places), second \in 1..Len(Places) :
          roosters = [r \in RoosterIds |->
                         NewRooster(Places[IF r = 0 THEN first ELSE second])]
    /\ SimAtRest

\* The moves a second pass can make: some roosters, each to some place.
Moves == UNION {[movers -> {Places[k] : k \in DOMAIN Places}] : movers \in SUBSET RoosterIds}

NextSim ==
    \/ \E dt \in SimSteps, moves \in Moves, deciders \in SUBSET RoosterIds :
          update_roosters_decide(dt, moves, deciders)
    \/ \E call_filename \in CallNames : update_roosters_execute(call_filename)
    \/ allocate_id("p1")
    \/ register_sound("p1")
    \/ update_roosters_count

SpecSim == InitSim /\ [][NextSim]_vars

\* The audio subsystem reporting status flags to the callback of a stream that
\* plays test tones.
NextUnderrun ==
    \/ \E p \in Producers, t \in ToneInputs : play_test_tone_call(p, t[1], t[2])
    \/ \E p \in Producers : allocate_id(p)
    \/ \E p \in Producers : register_sound(p)
    \/ \E status \in Statuses : audio_callback_entry(BlockSize, status)
    \/ audio_callback_remove
    \/ \E first \in Outcomes, second \in Outcomes : start_stream(first, second)
    \/ stop_stream

SpecUnderrun == Init /\ [][NextUnderrun]_vars

\* ------------------------------------------------------------ claims

\* ceil(n / d) for n >= 0, d >= 1.
CeilDiv(n, d) == (n + d - 1) \div d

\* The ids registered so far: those in the registry and those deleted from it.
Registered_ids == DOMAIN active_sounds \cup DOMAIN retired

\* A step that ends a callback (the removal loop and the return).
CallbackReturns == pc["cb"] = "remove" /\ pc'["cb"] = "idle"

\* C1: a sound's position never decreases (and never passes len(data)); a sound
\* leaves the registry only in a callback's removal loop, only with
\* position = len(data), and only once (a deleted id is never in the registry
\* again); and no sound with position = len(data) outlives the callback that
\* brought it there.
C1_CursorMonotoneRemovedOnceAtEnd ==
    [][ /\ \A i \in DOMAIN active_sounds :
              /\ i \in DOMAIN active_sounds' =>
                    /\ active_sounds'[i].position >= active_sounds[i].position
                    /\ active_sounds'[i].position <= Len(active_sounds'[i].data)
              /\ i \notin DOMAIN active_sounds' =>
                    /\ CallbackReturns
                    /\ active_sounds[i].position = Len(active_sounds[i].data)
                    /\ i \notin DOMAIN retired
                    /\ i \in DOMAIN retired' /\ retired'[i]
        /\ \A i \in DOMAIN retired : i \notin DOMAIN active_sounds'
        /\ CallbackReturns =>
              \A i \in DOMAIN active_sounds' :
                  active_sounds'[i].position < Len(active_sounds'[i].data)
      ]_vars

\* C1 witness: one sound has been deleted at its end while another one is
\* part-way through its data.
C1_Witness ==
    /\ \E i \in DOMAIN retired : retired[i]
    /\ \E i \in DOMAIN active_sounds :
          /\ active_sounds[i].position > 0
          /\ active_sounds[i].position < Len(active_sounds[i].data)

\* C2: whenever the lock is free, a sound is in the registry iff its position
\* is below len(data): every registered sound has position < len(data), and
\* every deleted sound had reached len(data).
C2_PresentIffCursorBelowLength ==
    lock = "free" =>
        /\ \A i \in DOMAIN active_sounds :
              active_sounds[i].position < Len(active_sounds[i].data)
        /\ \A i \in DOMAIN retired : retired[i]

\* C3: the id a producer registers and returns is new and greater than every
\* id registered before it, whatever the interleaving of producers and callbacks.
C3_IdsUniqueIncreasing ==
    [][ \A p \in Producers :
          (pc[p] = "locked" /\ pc'[p] = "idle") =>
              /\ ret' = Value(local[p].sound_id)
              /\ local[p].sound_id \notin Registered_ids
              /\ \A j \in Registered_ids : j < local[p].sound_id
              /\ DOMAIN active_sounds' = DOMAIN active_sounds \cup {local[p].sound_id}
              /\ \A j \in DOMAIN active_sounds : active_sounds'[j] = active_sounds[j]
      ]_vars

\* C3 witness: id 0 was registered and has retired, and a producer holds the
\* lock with id 1 allocated.
C3_Witness ==
    /\ 0 \in DOMAIN retired
    /\ \E p \in Producers : pc[p] = "locked" /\ local[p].sound_id = 1

\* C4: a sound with N >= 1 samples is deleted by the callback that is its
\* ceil(N / BlockSize)-th, no earlier and no later, and
\* get_active_sound_count never counts a sound that has had that many callbacks.
C4_RetiredAfterCeilTicks ==
    [][ /\ CallbackReturns =>
              \A i \in DOMAIN active_sounds :
                  Len(active_sounds[i].data) >= 1 =>
                      /\ ticks[i] <= CeilDiv(Len(active_sounds[i].data), BlockSize)
                      /\ i \notin DOMAIN active_sounds' <=>
                            ticks[i] = CeilDiv(Len(active_sounds[i].data), BlockSize)
        /\ get_active_sound_count =>
              ret' = Value(Cardinality(
                  {i \in DOMAIN active_sounds :
                      \/ ticks[i] < CeilDiv(Len(active_sounds[i].data), BlockSize)
                      \/ ticks[i] = 0}))
      ]_vars

\* C4 witness: the callback is about to delete a sound of 3 samples after its
\* second callback (ceil(3 / 2) = 2), the only sound registered.
C4_Witness ==
    /\ pc["cb"] = "remove"
    /\ \E i \in sounds_to_remove :
          /\ Len(active_sounds[i].data) = 3
          /\ ticks[i] = 2
          /\ DOMAIN active_sounds = {i}

\* C5: a play_sound whose load fails returns None and changes neither the
\* registry nor next_sound_id nor the cache, and the producer is back where it
\* was: no sound is on its way to the registry.
C5_LoadFailureIsNoOp ==
    [][ \A p \in Producers, i \in PlayInputs :
          (play_sound_call(p, i[1], i[2]) /\ ~load_audio(i[1]).ok) =>
              /\ ret' = None
              /\ pc' = pc /\ local' = local
              /\ UNCHANGED <<active_sounds, next_sound_id, audio_cache, lock>>
      ]_vars

\* C5 witness: a play_sound has returned None with a sound registered earlier
\* still in the registry and nothing cached but that sound's file.
C5_Witness ==
    /\ ret = None
    /\ DOMAIN active_sounds = {0} /\ next_sound_id = 1
    /\ DOMAIN audio_cache = {"a.wav"}

\* A start_stream that finds no stream held, with the device's answers.
Starts(first, second) == stream = "none" /\ start_stream(first, second)

C7_DoubleFailureLeavesNoHandle ==
    [][ \A first \in Outcomes, second \in Outcomes :
          (Starts(first, second) /\ first # "ok" /\ channels > 2 /\ second # "ok") =>
              stream' = "none"
      ]_vars

\* Both attempts of the latest start_stream failed: the stream is unopened.
StartFailedTwice == Len(open_log) = 2 /\ stream # "active"

\* C8: with the stream unopened after two failed attempts, a producer's
\* registration still creates the sound, and every sound in the registry is
\* eventually deleted from it.
C8_UnopenedStreamSoundsRetire ==
    /\ [][ \A p \in Producers :
             (StartFailedTwice /\ pc[p] = "locked" /\ pc'[p] = "idle") =>
                 local[p].sound_id \in DOMAIN active_sounds' ]_vars
    /\ \A i \in 0..(MaxSounds - 1) :
          (StartFailedTwice /\ i \in DOMAIN active_sounds)
              ~> (i \notin DOMAIN active_sounds)

\* C9: stop_stream can always be called when no stream is held and then
\* changes nothing; whenever it runs it leaves stream = None and changes
\* nothing else (registry, id counter, cache, channel state), so a second
\* stop_stream right after it changes nothing.
C9_StopIdempotent ==
    /\ [](stream = "none" => (ENABLED stop_stream) /\ ~(ENABLED <<stop_stream>>_vars))
    /\ [][ stop_stream =>
             /\ stream' = "none"
             /\ UNCHANGED <<active_sounds, next_sound_id, retired, ticks, audio_cache,
                            tmp_files, files, lock, channels, is_stereo_mode,
                            requested_channels, pc, local, ret>> ]_vars

\* C9 witness: the stream was stopped while a sound was part-way through its
\* data, and the sound is still registered.
C9_Witness ==
    /\ stream = "none"
    /\ \E i \in DOMAIN active_sounds :
          /\ active_sounds[i].position > 0
          /\ active_sounds[i].position < Len(active_sounds[i].data)

\* C10: a sound leaves the registry only in a callback's removal loop and only
\* with position >= len(data); play_sound, play_test_tone,
\* get_active_sound_count, start_stream and stop_stream remove and change no
\* registered sound; and every registered sound is eventually deleted unless
\* the stream stops being active.
C10_PlaysToCompletion ==
    /\ [][ /\ \A i \in DOMAIN active_sounds :
                 i \notin DOMAIN active_sounds' =>
                     /\ audio_callback_remove
                     /\ active_sounds[i].position >= Len(active_sounds[i].data)
           /\ ( \/ \E p \in Producers, i \in PlayInputs : play_sound_call(p, i[1], i[2])
                \/ \E p \in Producers, t \in ToneInputs : play_test_tone_call(p, t[1], t[2])
                \/ \E p \in Producers : allocate_id(p) \/ register_sound(p)
                \/ get_active_sound_count
                \/ \E first \in Outcomes, second \in Outcomes : start_stream(first, second)
                \/ stop_stream )
              => \A i \in DOMAIN active_sounds :
                     i \in DOMAIN active_sounds' /\ active_sounds'[i] = active_sounds[i]
         ]_vars
    /\ \A i \in 0..(MaxSounds - 1) :
          (i \in DOMAIN active_sounds)
              ~> (i \notin DOMAIN active_sounds \/ stream # "active")

\* C10 witness: one sound has played to its end and been deleted, the stream
\* was stopped afterwards, and a sound that was part-way through its data is
\* still registered.
C10_Witness ==
    /\ \E i \in DOMAIN retired : retired[i]
    /\ stream = "none"
    /\ \E i \in DOMAIN active_sounds : active_sounds[i].position > 0

\* The frames of a sound that one callback of BlockSize frames mixes.
FramesToMix(sound) ==
    IF Len(sound.data) - sound.position < BlockSize
    THEN Len(sound.data) - sound.position
    ELSE BlockSize

\* sample[cursor + f] * gain for f within the frames mixed, 0 after them.
Cell(sound, f, gain) ==
    IF f <= FramesToMix(sound) THEN sound.data[sound.position + f] * gain ELSE 0

\* The sum over every registered sound i of Cell(active_sounds[i], f, gain(i)).
SumOverSounds(f, gain(_)) ==
    SumSeq([k \in 1..MaxSounds |->
               IF (k - 1) \in DOMAIN active_sounds
               THEN Cell(active_sounds[k - 1], f, gain(k - 1))
               ELSE 0])

\* The largest sample of the registered sounds (0 when there is none).
LargestSample ==
    LET all == UNION {{active_sounds[i].data[k] : k \in 1..Len(active_sounds[i].data)} :
                        i \in DOMAIN active_sounds}
    IN  IF all = {} THEN 0 ELSE CHOOSE m \in all : \A x \in all : x <= m

\* C11: with 6 channels and no downmix, the block a callback writes has
\* BlockSize frames of 6 channels, and its cell (f, ch) is the sum over the
\* sounds registered when the callback starts of sample[position + f] *
\* volumes[ch] for the frames mixed and 0 after them; the sum is not limited.
C11_SixChannelBlockIsSum ==
    [][ (audio_callback_mix(BlockSize) /\ ~is_stereo_mode /\ channels = 6) =>
            /\ Len(outdata') = BlockSize
            /\ \A f \in 1..BlockSize :
                  /\ Len(outdata'[f]) = 6
                  /\ \A ch \in 1..6 :
                        LET gain(i) == active_sounds[i].volumes[ch]
                        IN  outdata'[f][ch] = SumOverSounds(f, gain)
      ]_vars

\* C11 witness: a 6-channel callback has mixed two sounds into a cell whose
\* value is above the largest sample at gain 1.0.
C11_Witness ==
    /\ pc["cb"] = "remove" /\ ~is_stereo_mode /\ channels = 6
    /\ Cardinality(DOMAIN active_sounds) = 2
    /\ \E f \in 1..BlockSize, ch \in 1..6 : outdata[f][ch] > 1000 * LargestSample

\* Two gain vectors are disjoint: no speaker has a gain in both.
Disjoint(v, w) == \A ch \in 1..6 : v[ch] = 0 \/ w[ch] = 0

\* C12: when the registry holds exactly two sounds on the same data with
\* disjoint gain vectors, the block of a callback is the cell-wise sum of the
\* blocks of mixing each of the two alone from its position, with and without
\* the downmix.
C12_Superposition ==
    [][ \A i, j \in DOMAIN active_sounds :
          ( /\ audio_callback_mix(BlockSize)
            /\ i # j /\ DOMAIN active_sounds = {i, j}
            /\ active_sounds[i].data = active_sounds[j].data
            /\ Disjoint(active_sounds[i].volumes, active_sounds[j].volumes) ) =>
              \A f \in 1..BlockSize : \A ch \in 1..channels :
                  outdata'[f][ch] = mix_sum({i}, BlockSize, f, ch)
                                      + mix_sum({j}, BlockSize, f, ch)
      ]_vars

\* C12 witness: a downmixing callback has mixed two sounds on the same data,
\* one with a gain on the front left speaker only and one with none there,
\* and both output channels carry signal.
C12_Witness ==
    /\ pc["cb"] = "remove" /\ is_stereo_mode
    /\ \E i, j \in DOMAIN active_sounds :
          /\ i # j /\ DOMAIN active_sounds = {i, j}
          /\ active_sounds[i].data = active_sounds[j].data
          /\ active_sounds[i].volumes = FrontLeftOnly
          /\ active_sounds[j].volumes = FrontRightQuadrant
    /\ \E f \in 1..BlockSize : outdata[f][1] > 0 /\ outdata[f][2] > 0

\* C13: with the downmix, the block has 2 channels; channel 0 is the sum over
\* the sounds of segment * (FL + 0.7 C + 0.7 RL) and channel 1 the sum of
\* segment * (FR + 0.7 C + 0.7 RR), the LFE gain entering neither; a sound
\* alone with gains (1,0,0,0,0,0) gives (1, 0) * sample and one alone with
\* gains (0,0,1,0,0,0) gives (0.7, 0.7) * sample.
C13_DownmixLaw ==
    [][ (audio_callback_mix(BlockSize) /\ is_stereo_mode) =>
            /\ channels = 2
            /\ \A f \in 1..BlockSize :
                  LET left(i) == active_sounds[i].volumes[1]
                                   + (7 * active_sounds[i].volumes[3]) \div 10
                                   + (7 * active_sounds[i].volumes[5]) \div 10
                      right(i) == active_sounds[i].volumes[2]
                                    + (7 * active_sounds[i].volumes[3]) \div 10
                                    + (7 * active_sounds[i].volumes[6]) \div 10
                      unit(i) == 1000
                      none(i) == 0
                      centre(i) == 700
                  IN  /\ outdata'[f] = <<SumOverSounds(f, left), SumOverSounds(f, right)>>
                      /\ \A i \in DOMAIN active_sounds :
                            DOMAIN active_sounds = {i} =>
                                /\ active_sounds[i].volumes = FrontLeftOnly =>
                                      outdata'[f] = <<SumOverSounds(f, unit),
                                                      SumOverSounds(f, none)>>
                                /\ active_sounds[i].volumes = CenterOnly =>
                                      outdata'[f] = <<SumOverSounds(f, centre),
                                                      SumOverSounds(f, centre)>>
      ]_vars

\* C13 witness: a downmixing callback has mixed one sound with the centre gain
\* alone, and both channels carry 0.7 times its sample.
C13_Witness ==
    /\ pc["cb"] = "remove" /\ is_stereo_mode
    /\ \E i \in DOMAIN active_sounds :
          /\ DOMAIN active_sounds = {i}
          /\ active_sounds[i].volumes = CenterOnly
          /\ active_sounds[i].position = 1
          /\ outdata[1] = <<700 * active_sounds[i].data[1], 700 * active_sounds[i].data[1]>>
          /\ active_sounds[i].data[1] # 0

\* C14: while a stream handle is held, no step changes channels or
\* is_stereo_mode: they change only inside a start_stream that finds no
\* handle, and a start_stream that finds one opens nothing.
C14_ModeFixedWhileStreamHeld ==
    [][ /\ stream # "none" => UNCHANGED <<channels, is_stereo_mode>>
        /\ ~UNCHANGED <<channels, is_stereo_mode>> =>
              \E first \in Outcomes, second \in Outcomes : Starts(first, second)
        /\ \A first \in Outcomes, second \in Outcomes :
              (stream # "none" /\ start_stream(first, second)) =>
                  UNCHANGED <<stream, channels, is_stereo_mode>> /\ open_log' = << >>
      ]_vars

\* C14 witness: after a start_stream that fell back to the downmix, a further
\* start_stream has found the stream held, and a registered sound has been
\* mixed by that stream.
C14_Witness ==
    /\ stream = "active" /\ is_stereo_mode /\ channels = 2
    /\ open_log = << >>
    /\ \E i \in DOMAIN active_sounds : ticks[i] > 0

\* C15: once a name is in the cache its entry never changes, whatever happens
\* to the file; a load_audio of a cached name returns the entry at the cache
\* test, reading no file, running no decoder and writing nothing; the file is
\* decoded only for a name that is not cached; and the data play_sound sends
\* to the registry is the cached data of its name, so sounds of one name have
\* the same data.
C15_CachedNameNeedsNoFile ==
    [][ /\ \A n \in DOMAIN audio_cache :
              n \in DOMAIN audio_cache' /\ audio_cache'[n] = audio_cache[n]
        /\ \A p \in Producers, n \in LoadNames :
              (load_audio_lookup(p, n) /\ n \in DOMAIN audio_cache) =>
                  /\ loading'[p] = [stage |-> "done", filename |-> n, ok |-> TRUE,
                                    data |-> audio_cache[n].data,
                                    rate |-> audio_cache[n].rate,
                                    calls |-> << >>, error |-> ""]
                  /\ UNCHANGED <<audio_cache, tmp_files, files>>
        /\ \A p \in Producers :
              load_audio_decode(p) => loading[p].filename \notin DOMAIN audio_cache
        /\ \A p \in Producers, v \in LoadGains :
              (play_sound_loaded(p, v) /\ loading[p].ok) =>
                  local'[p].data = audio_cache[loading[p].filename].data
      ]_vars

\* C15 witness: a sound of a.wav is registered, the file has been deleted, and
\* a further load_audio of a.wav has returned the cached data.
C15_Witness ==
    /\ 0 \in DOMAIN active_sounds
    /\ ~files["a.wav"].exists
    /\ loading["p1"].stage = "done" /\ loading["p1"].filename = "a.wav"
    /\ loading["p1"].ok /\ loading["p1"].data = active_sounds[0].data

\* C16: no temporary file exists once the transcoding load has returned,
\* however it ended.
C16_NoTempFileOutlivesLoad == tmp_files = {}

\* C17: under any interleaving of the producers' loads, a cache entry holds
\* what decoding its file gives, whole, and never changes; a load that has
\* returned a pair returned the content of the entry, and one that returned
\* None left no entry; loads of one name return the same.
C17_ConcurrentFirstLoadIdempotent ==
    /\ [](\A n \in DOMAIN audio_cache :
             /\ load_audio_miss(n).ok
             /\ audio_cache[n] = [data |-> load_audio_miss(n).data,
                                  rate |-> load_audio_miss(n).rate])
    /\ [](\A p \in Producers :
             loading[p].stage = "done" =>
                 IF loading[p].ok
                 THEN /\ loading[p].filename \in DOMAIN audio_cache
                      /\ audio_cache[loading[p].filename] =
                            [data |-> loading[p].data, rate |-> loading[p].rate]
                 ELSE loading[p].filename \notin DOMAIN audio_cache)
    /\ [](\A p, q \in Producers :
             ( /\ loading[p].stage = "done" /\ loading[q].stage = "done"
               /\ loading[p].filename = loading[q].filename )
             => /\ loading[p].ok = loading[q].ok
                /\ loading[p].data = loading[q].data
                /\ loading[p].rate = loading[q].rate)
    /\ [][ \A n \in DOMAIN audio_cache :
             n \in DOMAIN audio_cache' /\ audio_cache'[n] = audio_cache[n] ]_vars

\* C17 witness: two producers found a.wav not cached; one has decoded and
\* stored it and got its pair, the other is about to decode it again.
C17_Witness ==
    /\ loading["p1"].stage = "done" /\ loading["p1"].filename = "a.wav" /\ loading["p1"].ok
    /\ loading["p2"].stage = "miss" /\ loading["p2"].filename = "a.wav"
    /\ "a.wav" \in DOMAIN audio_cache

\* The threads that take the lock.
Threads == Producers \cup {"cb"}

\* C18: the lock is held exactly by the thread that is inside its `with
\* self.lock:` block; every step that changes the registry or the id counter
\* is taken by the thread that holds the lock or takes it in that step; from
\* the callback's loop to its return no other thread changes the registry (a
\* sound is registered before the loop or after the return, and the registry
\* keeps its size through the loop and until the removals); and
\* get_active_sound_count reads the size only between callbacks.
C18_RegistryOnlyUnderLock ==
    /\ [](/\ lock \in Threads \cup {"free"}
          /\ (lock = "cb") <=> (pc["cb"] = "remove")
          /\ \A p \in Producers : (lock = p) <=> (pc[p] = "locked"))
    /\ [][ /\ ~UNCHANGED <<active_sounds, next_sound_id>> =>
                 \/ lock = "free" /\ lock' = "cb"
                 \/ lock \in Threads /\ lock' = "free"
           /\ pc["cb"] = "remove" =>
                 (audio_callback_remove \/ UNCHANGED <<active_sounds, next_sound_id>>)
           /\ audio_callback_mix(BlockSize) =>
                 DOMAIN active_sounds' = DOMAIN active_sounds
           /\ \A p \in Producers :
                 (register_sound(p) \/ allocate_id(p)) => pc["cb"] = "idle" /\ pc'["cb"] = "idle"
           /\ get_active_sound_count =>
                 /\ pc["cb"] = "idle" /\ \A p \in Producers : pc[p] # "locked"
                 /\ ret' = Value(Cardinality(DOMAIN active_sounds))
         ]_vars

\* C18 witness: the callback is between its loop and its removals with a
\* finished sound still in the registry, while a producer waits for the lock
\* with a sound to register.
C18_Witness ==
    /\ pc["cb"] = "remove" /\ sounds_to_remove # {}
    /\ \E p \in Producers : pc[p] = "loaded"

\* C19: no thread waits for the lock while holding it; the producer's
\* registration and the callback's return release it; and with a fair lock a
\* producer that has loaded its data gets the lock and returns, and a callback
\* that has taken the lock returns, with a stream and without one.
C19_NoDeadlock ==
    /\ [](\A p \in Producers : pc[p] = "loaded" => lock # p)
    /\ [][ /\ \A p \in Producers : (pc[p] = "locked" /\ pc'[p] # "locked") => lock' = "free"
           /\ (pc["cb"] = "remove" /\ pc'["cb"] # "remove") => lock' = "free" ]_vars
    /\ \A p \in Producers : (pc[p] # "idle") ~> (pc[p] = "idle")
    /\ (pc["cb"] # "idle") ~> (pc["cb"] = "idle")

\* C19 witness: with no stream open, one producer is inside the lock and the
\* other waits for it.
C19_Witness ==
    /\ stream = "none"
    /\ pc["p1"] = "locked" /\ pc["p2"] = "loaded"

\* C20: no invocation of the callback prints, whatever status it is passed.
C20_CallbackNeverPrints == printed = NoStatus

\* ------------------------------------------------------------ C21 .. C30

\* The quadrant of the mathematics: floor(normalizedAngle / (pi/2)) mod 4 with
\* the normalised angle in [0, 2 pi).
ExactQuadrant(angle) == ((angle % TwoPi) \div Quarter) % 4

\* The neighbours of x > 0 among the numbers of the format.
JustAbove(x) == x + Ulp(x)
JustBelow(x) == x - Ulp(x - 1)

\* C21: for every angle, negative angles and angles >= 2 pi included,
\* get_quadrant returns floor(normalizedAngle / (pi/2)) mod 4 with the
\* normalised angle in [0, 2 pi): 0 for [0, pi/2), 1 for [pi/2, pi), 2 for
\* [pi, 3 pi/2) and 3 for [3 pi/2, 2 pi).
C21_QuadrantOfEveryAngle ==
    returned.op = "get_quadrant" =>
        /\ returned.quadrant \in 0..3
        /\ returned.quadrant = ExactQuadrant(position.angle)

\* C21, what does hold: the result is a quadrant; it is the quadrant of the
\* mathematics for every angle >= 0, and for a negative angle it is that one or,
\* when the sum with 2 pi rounds up to a boundary, the one after it.
C21_QuadrantUpToRounding ==
    returned.op = "get_quadrant" =>
        LET exact == ExactQuadrant(position.angle)
            r == position.angle % TwoPi
        IN  /\ returned.quadrant \in 0..3
            /\ position.angle >= 0 => returned.quadrant = exact
            /\ position.angle < 0 => returned.quadrant \in {exact, (exact + 1) % 4}
            /\ returned.quadrant # exact => (exact + 1) * Quarter - r <= Ulp(r)

\* C21, reached: a small negative angle, in [3 pi/2, 2 pi) once normalised, for
\* which get_quadrant returned 0.
C21_Witness ==
    /\ returned.op = "get_quadrant"
    /\ position.angle < 0
    /\ ExactQuadrant(position.angle) = 3
    /\ returned.quadrant = 0

\* C22 as stated: angle 0 is in quadrant 0, an angle just below pi/2 is in
\* quadrant 0, pi/2 is in quadrant 1, and 3 pi/2 + epsilon is in quadrant 0.
C22_BoundariesAsStated ==
    returned.op = "get_quadrant" =>
        /\ position.angle = 0 => returned.quadrant = 0
        /\ position.angle = JustBelow(Quarter) => returned.quadrant = 0
        /\ position.angle = Quarter => returned.quadrant = 1
        /\ position.angle = JustAbove(3 * Quarter) => returned.quadrant = 0

\* C22: angle 0 is in quadrant 0, an angle just below pi/2 is in quadrant 0,
\* pi/2 is in quadrant 1, 3 pi/2 + epsilon is in quadrant 3, and the angle that
\* wraps, 2 pi + epsilon, is in quadrant 0.
C22_Boundaries ==
    returned.op = "get_quadrant" =>
        /\ position.angle = 0 => returned.quadrant = 0
        /\ position.angle = JustBelow(Quarter) => returned.quadrant = 0
        /\ position.angle = Quarter => returned.quadrant = 1
        /\ position.angle = JustAbove(3 * Quarter) => returned.quadrant = 3
        /\ position.angle = JustAbove(TwoPi) => returned.quadrant = 0

\* C22, reached: get_quadrant has answered for 3 pi/2 + epsilon.
C22_Witness ==
    /\ returned.op = "get_quadrant"
    /\ position.angle = JustAbove(3 * Quarter)
    /\ returned.quadrant = 3

\* The statements about the base volume that C23 makes and that hold as made.
BaseVolumeLaw ==
    LET c == volume_config
        v(d) == get_volume_for_distance(d)
    IN  /\ \A d \in Distances :
              /\ ~v(d).raised
              /\ d <= c.min_distance => v(d).value = c.max_volume
              /\ (c.min_distance < d /\ d < c.max_distance) =>
                     v(d).value = c.max_volume
                                    - ((d - c.min_distance) * (c.max_volume - c.min_volume))
                                      \div (c.max_distance - c.min_distance)
              /\ c.min_volume <= v(d).value
              /\ v(d).value <= c.max_volume
        /\ \A d1, d2 \in Distances : d1 <= d2 => v(d2).value <= v(d1).value
        /\ ~v(c.min_distance).raised /\ v(c.min_distance).value = c.max_volume
        /\ returned.op = "get_volume_for_distance" =>
              /\ ~returned.raised
              /\ returned.volume = v(position.distance).value

\* C23 as stated: the base volume is maxVolume when distance <= minDistance,
\* minVolume when distance >= maxDistance and the interpolation otherwise; so
\* minDistance gives maxVolume, maxDistance gives minVolume, the midpoint gives
\* the arithmetic mean, the result lies between the two volumes, does not
\* increase with the distance, and nothing is divided by zero.
C23_BaseVolumeAsStated ==
    LET c == volume_config
        v(d) == get_volume_for_distance(d)
    IN  /\ BaseVolumeLaw
        /\ returned.op = "get_volume_for_distance" =>
              /\ position.distance >= c.max_distance => returned.volume = c.min_volume
              /\ 2 * position.distance = c.min_distance + c.max_distance =>
                     2 * returned.volume = c.min_volume + c.max_volume

\* C23: the same, with the two tests taken in the order of the code: minVolume
\* is the result when distance >= maxDistance and distance > minDistance, and
\* the midpoint gives the mean when minDistance < maxDistance.
C23_BaseVolume ==
    LET c == volume_config
        v(d) == get_volume_for_distance(d)
    IN  /\ BaseVolumeLaw
        /\ \A d \in Distances :
              (d >= c.max_distance /\ d > c.min_distance) => v(d).value = c.min_volume
        /\ c.min_distance < c.max_distance =>
              /\ v(c.max_distance).value = c.min_volume
              /\ 2 * v((c.min_distance + c.max_distance) \div 2).value
                    = c.min_volume + c.max_volume

\* C23, reached: the two distances of the configuration are equal, the two
\* volumes are not, and the volume was asked for at that distance.
C23_Witness ==
    /\ returned.op = "get_volume_for_distance"
    /\ volume_config.min_distance = volume_config.max_distance
    /\ volume_config.min_volume # volume_config.max_volume
    /\ position.distance = volume_config.min_distance
    /\ returned.volume = volume_config.max_volume

\* Indices of the channels in a gain vector (fl, fr, c, lfe, rl, rr).
FL == 1
FR == 2
C == 3
LFE == 4
RL == 5
RR == 6

\* Primary and bleed channel of each quadrant.
Primary(quadrant) == CASE quadrant = 0 -> FR [] quadrant = 1 -> RR
                       [] quadrant = 2 -> RL [] OTHER -> FL
Bleed(quadrant) == CASE quadrant = 0 -> C [] quadrant = 1 -> FR
                     [] quadrant = 2 -> FL [] OTHER -> C

\* C24: for every position, get_speaker_volumes returns (FL, FR, C, LFE, RL, RR)
\* with 0.8 * baseVolume on the primary channel of the quadrant, 0.2 * baseVolume
\* on its bleed channel (0: FR/C, 1: RR/FR, 2: RL/FL, 3: FL/C), 0.15 * baseVolume
\* on LFE in every quadrant, and 0 on every other channel.
C24_GainVector ==
    returned.op = "get_speaker_volumes" =>
        LET b == get_volume_for_distance(position.distance).value
            q == get_quadrant(position.angle)
            g == returned.volumes
        IN  /\ ~returned.raised
            /\ Len(g) = 6
            /\ q \in 0..3
            /\ g[Primary(q)] = (8 * b) \div 10
            /\ g[Bleed(q)] = (2 * b) \div 10
            /\ g[LFE] = (15 * b) \div 100
            /\ \A i \in 1..6 : i \notin {Primary(q), Bleed(q), LFE} => g[i] = 0

\* C24, reached: the gain vector of a rooster in quadrant 3 that is neither
\* at full nor at least volume.
C24_Witness ==
    /\ returned.op = "get_speaker_volumes"
    /\ get_quadrant(position.angle) = 3
    /\ returned.volumes[FL] > 0
    /\ returned.volumes[C] > 0
    /\ returned.volumes[FL] < (8 * volume_config.max_volume) \div 10
    /\ returned.volumes[FL] > (8 * volume_config.min_volume) \div 10

\* The callback's loop over active_sounds runs in this step.
Mixes == pc["cb"] = "idle" /\ pc'["cb"] = "remove"

\* C25: every sound keeps 0 <= position <= len(data); a callback advances the
\* position by exactly min(frames, len(data) - position), never by more than the
\* frames that remain, and reads no sample at or beyond len(data).
C25_CursorWithinData ==
    [][/\ \A i \in DOMAIN active_sounds' :
             /\ 0 <= active_sounds'[i].position
             /\ active_sounds'[i].position <= Len(active_sounds'[i].data)
       /\ Mixes =>
             \A i \in DOMAIN active_sounds :
                 LET sound == active_sounds[i]
                     remaining == Len(sound.data) - sound.position
                     n == Min(BlockSize, remaining)
                 IN  /\ active_sounds'[i].position = sound.position + n
                     /\ active_sounds'[i].position - sound.position <= remaining
                     /\ \A f \in 1..BlockSize, ch \in 1..channels :
                            contribution(sound, BlockSize, f, ch) # 0
                               => sound.position + f \in DOMAIN sound.data]_vars

\* C25, reached: a callback has advanced a sound by fewer frames than it asked
\* for, to the end of its data.
C25_Witness ==
    /\ pc["cb"] = "remove"
    /\ \E i \in DOMAIN active_sounds :
          /\ active_sounds[i].position = Len(active_sounds[i].data)
          /\ Len(active_sounds[i].data) % BlockSize # 0
          /\ ticks[i] * BlockSize > Len(active_sounds[i].data)

Range(seq) == {seq[k] : k \in DOMAIN seq}

\* The last four characters of a name ("" for a shorter one).
Suffix4(name) == IF Len(name) >= 4 THEN SubSeq(name, Len(name) - 3, Len(name)) ELSE ""

\* What C27 says of the load of `name` that producer p completes in this step,
\* mp3 telling whether the name counts as one that ends in .mp3: a failed load
\* leaves the cache as it was, without an entry for the name; a path that does
\* not exist is reported as not found after the test of the path alone; the
\* transcoder is run only after the decoder has failed on an .mp3 name; a
\* decoder failure on another name is a load error with no transcoder run.
LoadContract(p, mp3) ==
    LET name == loading[p].filename
        f == files[name]
        r == loading'[p]
    IN  /\ ~r.ok => (audio_cache' = audio_cache /\ name \notin DOMAIN audio_cache')
        /\ ~f.exists =>
              /\ ~r.ok
              /\ r.error = "Warning: Audio file not found"
              /\ r.calls = <<"os.path.exists">>
        /\ "subprocess.run" \in Range(r.calls) =>
              /\ f.exists /\ ~f.sf_ok /\ mp3
              /\ SubSeq(r.calls, 1, 3) = <<"os.path.exists", "sf.read", "subprocess.run">>
        /\ (f.exists /\ ~f.sf_ok /\ ~mp3) =>
              /\ ~r.ok
              /\ r.error = "Error loading audio file"
              /\ "subprocess.run" \notin Range(r.calls)

\* A load that has missed the cache goes to the file system.
LookupRetries ==
    \A p \in Producers :
        (loading[p].stage = "idle" /\ loading'[p].stage # "idle"
           /\ loading'[p].filename \notin DOMAIN audio_cache)
        => loading'[p].stage = "miss"

\* C27 as stated: a failed load leaves the cache unchanged, so that the next
\* load of the name goes to the file system again; a path that does not exist
\* is reported as not found with no decode attempted; the transcoder is tried
\* only when the decoder failed and the name ends in .mp3, and for any other
\* name a decoder failure is a load error with no transcoder run.
C27_FailedLoadAsStated ==
    [][/\ LookupRetries
       /\ \A p \in Producers :
             (loading[p].stage = "miss" /\ loading'[p].stage = "done")
             => LoadContract(p, Suffix4(loading[p].filename) = ".mp3")]_vars

\* C27: the same, a name counting as one that ends in .mp3 in whatever letter
\* case the four characters are written.
C27_FailedLoad ==
    [][/\ LookupRetries
       /\ \A p \in Producers :
             (loading[p].stage = "miss" /\ loading'[p].stage = "done")
             => LoadContract(p, Suffix4(loading[p].filename)
                                  \in {".mp3", ".mP3", ".Mp3", ".MP3"})]_vars

\* Seconds from a to the next time of day b.
SecondsUntil(a, b) == (b - a) % seconds_in_day

\* C30 as stated: the dawn multiplier whenever the time of day is within
\* dawn_duration / 2 of dawn_time, a dawn that wraps around midnight included;
\* dawn before daylight where they overlap; the daylight multiplier within
\* [daylight_start, daylight_end]; the nighttime multiplier at every other time.
C30_TimeOfDayMultiplier ==
    (returned.op = "_get_time_of_day_multiplier" /\ time_config.enabled) =>
        LET c == time_config
            t == (c.start_time[1] * 3600 + c.start_time[2] * 60
                    + current_time * c.time_scale) % seconds_in_day
            dawn == c.dawn_time[1] * 3600
                      + (IF Len(c.dawn_time) > 1 THEN c.dawn_time[2] * 60 ELSE 0)
            half == (c.dawn_duration * 3600) \div 2
            in_dawn == SecondsUntil(dawn, t) <= half \/ SecondsUntil(t, dawn) <= half
            in_daylight == /\ c.daylight_start[1] * 3600 + c.daylight_start[2] * 60 <= t
                           /\ t <= c.daylight_end[1] * 3600 + c.daylight_end[2] * 60
        IN  returned.multiplier =
                IF in_dawn THEN c.dawn_multiplier
                ELSE IF in_daylight THEN c.daylight_multiplier
                ELSE c.nighttime_multiplier

\* C30, what does hold: all of it when the dawn window does not wrap around
\* midnight.
C30_TimeOfDayMultiplierUnwrapped ==
    LET c == time_config
        dawn == c.dawn_time[1] * 3600
                  + (IF Len(c.dawn_time) > 1 THEN c.dawn_time[2] * 60 ELSE 0)
        half == (c.dawn_duration * 3600) \div 2
    IN  (half <= dawn /\ dawn + half < seconds_in_day) => C30_TimeOfDayMultiplier

\* C29: within one invocation of _update_roosters a rooster whose call starts
\* in that invocation is counted as a nearby calling rooster for the other
\* roosters evaluated in it.
C29_SameTimestepResponse ==
    sim_pc = "idle" =>
        \A r \in call_started : \A q \in RoosterIds \ {r} :
            within_trigger_distance(roosters[q].position, roosters[r].position)
               => r \in nearby_seen[q]

\* C29, what does hold: a rooster is counted as nearby and calling only if its
\* call was started by an earlier invocation and has not ended.
C29_OnlyEarlierCallsSeen ==
    [][(sim_pc = "idle" /\ current_time' # current_time) =>
          \A q \in RoosterIds : \A r \in nearby_seen'[q] :
              /\ roosters[r].is_calling
              /\ current_time' - roosters[r].call_start_time <= call_duration]_vars

\* C27, reached: a load of LOUD.MP3 has ended, the decoder having failed and
\* the transcoder having run, after a load that failed (play_sound has returned
\* None) and with no entry for bad.ogg.
C27_Witness ==
    /\ loading["p1"].stage = "done"
    /\ loading["p1"].filename = "LOUD.MP3"
    /\ loading["p1"].ok
    /\ "subprocess.run" \in Range(loading["p1"].calls)
    /\ ret = None
    /\ "bad.ogg" \notin DOMAIN audio_cache

\* ------------------------------------------------------------ C31 .. C36

\* C31: a producer holds the lock only between its id allocation and its
\* insertion, never while a load of its own is under way, and its insertion can
\* then be taken at once; a callback of an active stream that finds the lock
\* free can mix, whatever loads are under way; every step of a load (the cache
\* lookup, the decoding with its store into the cache and its temporary file,
\* the return to play_sound) is taken by a producer that does not hold the
\* lock and leaves the lock as it is; the cache and the temporary files change
\* in load steps only; and the lock passes to a producer by allocate_id and
\* from it by register_sound alone.
C31_LoadOutsideLock ==
    /\ [](/\ \A p \in Producers :
                lock = p => /\ pc[p] = "locked"
                            /\ loading[p].stage = "idle"
                            /\ ENABLED register_sound(p)
          /\ (stream = "active" /\ pc["cb"] = "idle" /\ lock = "free")
                => ENABLED audio_callback_mix(BlockSize))
    /\ [][ /\ \A p \in Producers :
                 loading'[p] # loading[p] =>
                     pc[p] = "idle" /\ lock # p /\ lock' = lock
           /\ ~UNCHANGED <<audio_cache, tmp_files>> =>
                 /\ \E p \in Producers : loading[p].stage = "miss" /\ loading'[p].stage = "done"
                 /\ UNCHANGED <<lock, active_sounds, next_sound_id>>
           /\ \A p \in Producers :
                 /\ (lock # p /\ lock' = p) => allocate_id(p)
                 /\ (lock = p /\ lock' # p) => register_sound(p)
         ]_vars

\* C31 witness: a callback mixes a registered sound (it holds the lock, its
\* removals are still to come) while one producer is in the middle of a load:
\* the name was not in the cache and the file is not decoded yet.
C31_Witness ==
    /\ lock = "cb" /\ pc["cb"] = "remove"
    /\ active_sounds # << >>
    /\ \E p \in Producers : loading[p].stage = "miss"

\* C32: is_stereo_mode is set only by a start_stream whose first attempt
\* failed with more than 2 channels, and it is never set while channels is the
\* configured count; a callback of a stream opened with the configured count c
\* writes a block of c channels whose cell (f, ch) is the sum over the sounds of
\* sample[position + f] * volumes[ch], so that for c < 6 the gains of the
\* channels above c enter no cell: a sound alone with the centre gain only
\* gives silence on 2 channels, and one with gains (0, 0.8, 0.2, 0.15, 0, 0)
\* gives (0, 0.8) * sample.
C32_DirectPathBelowSix ==
    /\ [](is_stereo_mode => channels = 2 /\ requested_channels > 2)
    /\ [][ /\ (is_stereo_mode' /\ ~is_stereo_mode) =>
                 \E first \in Outcomes \ {"ok"}, second \in Outcomes :
                     Starts(first, second) /\ channels > 2
           /\ (audio_callback_mix(BlockSize) /\ channels = requested_channels) =>
                 /\ Len(outdata') = BlockSize
                 /\ \A f \in 1..BlockSize :
                       /\ Len(outdata'[f]) = requested_channels
                       /\ \A ch \in 1..requested_channels :
                             LET gain(i) == active_sounds[i].volumes[ch]
                             IN  outdata'[f][ch] = SumOverSounds(f, gain)
                       /\ \A i \in DOMAIN active_sounds :
                             (DOMAIN active_sounds = {i} /\ requested_channels = 2) =>
                                 LET sample == Cell(active_sounds[i], f, 1)
                                 IN  /\ active_sounds[i].volumes = CenterOnly =>
                                           outdata'[f] = <<0, 0>>
                                     /\ active_sounds[i].volumes = FrontRightQuadrant =>
                                           outdata'[f] = <<0, 800 * sample>>
         ]_vars

\* C32 witness: a stream configured for 2 channels has opened at the first
\* attempt, and a callback has mixed one sound whose gains are non-zero on the
\* front right, centre and LFE speakers: the block has 2 channels, the left one
\* silent and the right one carrying the front right gain alone.
C32_Witness ==
    /\ requested_channels = 2 /\ channels = 2 /\ ~is_stereo_mode
    /\ stream = "active" /\ open_log = <<2>>
    /\ pc["cb"] = "remove"
    /\ \E i \in DOMAIN active_sounds :
          /\ DOMAIN active_sounds = {i}
          /\ active_sounds[i].volumes = FrontRightQuadrant
          /\ active_sounds[i].position = 1
          /\ active_sounds[i].data[1] # 0
          /\ outdata[1] = <<0, 800 * active_sounds[i].data[1]>>

\* What a callback leaves alone: the id counter, the cache, the files, the
\* stream and its mode, and what the producers hold.
OutsideCallback ==
    <<next_sound_id, audio_cache, tmp_files, files, stream, channels, is_stereo_mode,
      requested_channels, open_log, local, ret, loading>>

\* C33: a sound has the same gains and the same data in every state from its
\* registration to its deletion; the mixing loop of a callback changes, of the
\* registry, the positions of the sounds it mixes and nothing else, its removal
\* loop changes the set of sounds and nothing of those that stay, and neither
\* changes the id counter, the cache, the stream or a producer's state; a
\* registration leaves every sound already registered as it is; and the id
\* counter changes only in the registration that ends play_sound or
\* play_test_tone, by one.
C33_VoicesImmutable ==
    [][ /\ \A i \in DOMAIN active_sounds \cap DOMAIN active_sounds' :
              /\ active_sounds'[i].volumes = active_sounds[i].volumes
              /\ active_sounds'[i].data = active_sounds[i].data
        /\ audio_callback_mix(BlockSize) =>
              /\ DOMAIN active_sounds' = DOMAIN active_sounds
              /\ \A i \in DOMAIN active_sounds :
                    /\ active_sounds'[i] =
                          [active_sounds[i] EXCEPT !.position = active_sounds'[i].position]
                    /\ FramesToMix(active_sounds[i]) = 0 =>
                          active_sounds'[i] = active_sounds[i]
              /\ UNCHANGED OutsideCallback
        /\ CallbackReturns =>
              /\ DOMAIN active_sounds' \subseteq DOMAIN active_sounds
              /\ \A i \in DOMAIN active_sounds' : active_sounds'[i] = active_sounds[i]
              /\ UNCHANGED OutsideCallback
        /\ \A p \in Producers :
              register_sound(p) =>
                  /\ DOMAIN active_sounds' = DOMAIN active_sounds \cup {next_sound_id}
                  /\ \A i \in DOMAIN active_sounds : active_sounds'[i] = active_sounds[i]
        /\ next_sound_id' # next_sound_id =>
              /\ \E p \in Producers : register_sound(p)
              /\ next_sound_id' = next_sound_id + 1
      ]_vars

\* C33 witness: a sound that a callback has mixed in part is in the registry
\* with the gains it was played with, beside a sound registered after that
\* callback and not mixed yet.
C33_Witness ==
    /\ pc["cb"] = "idle"
    /\ \E i, j \in DOMAIN active_sounds :
          /\ i < j
          /\ active_sounds[i].position > 0
          /\ active_sounds[i].position < Len(active_sounds[i].data)
          /\ active_sounds[i].volumes = FrontRightQuadrant
          /\ active_sounds[j].position = 0
          /\ ticks[j] = 0

\* C34: a start_stream that finds a stream held opens nothing and leaves the
\* held stream, channels and is_stereo_mode as they are, and a start_stream
\* that finds none leaves at most one output stream open on the device, so
\* that at most one exists at any time.
C34_AtMostOneStream ==
    [][ \A first \in Outcomes, second \in Outcomes :
          /\ (stream # "none" /\ start_stream(first, second)) =>
                /\ open_log' = << >>
                /\ UNCHANGED <<stream, channels, is_stereo_mode>>
          /\ Starts(first, second) => opened_streams(first, second) <= 1
      ]_vars

\* C34, what does hold: a start_stream that finds a stream held makes no
\* attempt to open and changes nothing of the stream's state; one that finds
\* none opens the stream it holds on return and at most one more, the one
\* whose start() raised before the fallback; and a callback runs only with
\* the held stream started.
C34_StartWhileHeldIsNoOp ==
    /\ [][ \A first \in Outcomes, second \in Outcomes :
              /\ (stream # "none" /\ start_stream(first, second)) =>
                    /\ open_log' = << >>
                    /\ UNCHANGED <<stream, channels, is_stereo_mode>>
              /\ Starts(first, second) =>
                    LET held == IF stream' # "none" THEN 1 ELSE 0
                    IN  /\ opened_streams(first, second) - held \in {0, 1}
                        /\ opened_streams(first, second) - held = 1 =>
                              first = "start_fail" /\ is_stereo_mode' /\ Len(open_log') = 2
          ]_vars
    /\ [](pc["cb"] = "remove" => stream = "active")

\* C35 as claimed: in every state proximity_responses <= total_calls, and
\* total_calls is at least the number of ids play_sound has allocated.
C35_CallsCoverVoices ==
    /\ stats.proximity_responses <= stats.total_calls
    /\ next_sound_id <= stats.total_calls

\* play_sound has returned an id to the fourth pass, which has not counted the
\* call yet.
VoiceNotCounted == sim_pc = "playing" /\ pc["p1"] = "idle" /\ ~ret.none

\* C35 amended: in every state proximity_responses <= total_calls; the ids
\* play_sound has allocated are at most total_calls, except between the return
\* of a play_sound that allocated one and the increment that follows it, where
\* they are at most total_calls + 1; total_calls changes only in that
\* increment, by one for each entry of the list of calls decided, whether
\* play_sound returned an id or None; and proximity_responses is incremented
\* in the same step, for a response only.
C35_CallsCoverVoicesOnceCounted ==
    /\ [](/\ stats.proximity_responses <= stats.total_calls
          /\ next_sound_id <= stats.total_calls + (IF VoiceNotCounted THEN 1 ELSE 0))
    /\ [][ /\ update_roosters_count =>
                 /\ stats'.total_calls = stats.total_calls + 1
                 /\ Len(calling_roosters') = Len(calling_roosters) - 1
                 /\ stats'.proximity_responses - stats.proximity_responses =
                       (IF Head(calling_roosters).is_response THEN 1 ELSE 0)
           /\ stats' # stats =>
                 \/ update_roosters_count
                 \/ /\ sim_pc = "idle"
                    /\ stats'.total_calls = stats.total_calls
                    /\ stats'.proximity_responses = stats.proximity_responses
         ]_vars

\* C35 witness: _update_roosters has returned with more calls counted than
\* ids allocated (a play_sound returned None and was counted), with an id
\* allocated and with a response among the calls.
C35_Witness ==
    /\ sim_pc = "idle"
    /\ next_sound_id >= 1
    /\ stats.total_calls > next_sound_id
    /\ stats.proximity_responses >= 1
    /\ stats.proximity_responses < stats.total_calls

\* C36: for a quadrant in 0..3 and any distance, the gain vector play_test_tone
\* builds is the one get_speaker_volumes returns, under the same volume
\* section, for a rooster at that distance whose angle lies in that quadrant;
\* for a quadrant outside 0..3 every gain but the LFE's is 0 and the LFE's is
\* 0.15 times the base volume; in both cases play_test_tone goes on to the
\* lock, and its registration adds a sound with that vector and the tone.
C36_ToneGainsAsRooster ==
    [][ /\ \A q \in TestQuadrants, d \in Distances :
              play_test_tone_configured("p1", q, d) =>
                  /\ pc'["p1"] = "loaded"
                  /\ q \in 0..3 =>
                        \A a \in Angles :
                            get_quadrant(a) = q =>
                                local'["p1"].volumes =
                                    get_speaker_volumes([angle |-> a, distance |-> d])
                  /\ q \notin 0..3 =>
                        /\ \A ch \in (1..6) \ {LFE} : local'["p1"].volumes[ch] = 0
                        /\ local'["p1"].volumes[LFE] =
                              (15 * get_volume_for_distance(d).value) \div 100
                        /\ local'["p1"].volumes[LFE] > 0
        /\ register_sound("p1") =>
              /\ next_sound_id \in DOMAIN active_sounds'
              /\ active_sounds'[next_sound_id].volumes = local["p1"].volumes
              /\ active_sounds'[next_sound_id].data = create_test_tone
      ]_vars

\* C36 witness: the registry holds a tone played with a quadrant outside 0..3,
\* whose gains are 0 but for the LFE, and a tone played with quadrant 1 at a
\* distance between the two of the shipped configuration, with the gains of a
\* rooster in the rear right.
C36_Witness ==
    /\ volume_config = [min_distance |-> 10, max_distance |-> 70,
                        min_volume |-> 100, max_volume |-> 1000]
    /\ \E i, j \in DOMAIN active_sounds :
          /\ active_sounds[i].volumes = <<0, 0, 0, 150, 0, 0>>
          /\ active_sounds[j].volumes =
                get_speaker_volumes([angle |-> Quarter, distance |-> 40])
          /\ active_sounds[j].volumes = <<0, 110, 0, 82, 0, 440>>
          /\ active_sounds[i].data = create_test_tone

====
